---- MODULE Spec2Model ----
(***************************************************************************)
(* wallet-api: the ledger consistency engine.                              *)
(*                                                                         *)
(* The store is the MySQL database behind `db` (src/unnamed/part_005).     *)
(* Every `await db.query(...)` of a route handler is one atomic statement  *)
(* of the store; the synchronous code of the handler that follows it, up   *)
(* to the next `await`, runs with it in one step.  Handlers of different   *)
(* requests interleave at their awaits.                                    *)
(***************************************************************************)
EXTENDS Integers, Sequences, FiniteSets, TLC

VARIABLES
    db,       \* the tables of the store
    calls,    \* the execute / cancel requests (planned.ts), one slot per request
    imports,  \* the POST /api/import requests (export.ts), one slot per request
    faults,   \* how many store calls have failed for reasons unrelated to the request
    reads     \* the read-side request in flight (summary.ts, goals.ts, export.ts)

vars == <<db, calls, imports, faults, reads>>

(***************************************************************************)
(* Bounds of the model.                                                    *)
(***************************************************************************)
MaxCalls == 2      \* execute / cancel requests issued in one behaviour
MaxImports == 2    \* import requests issued in one behaviour
MaxFaults == 1     \* store calls that fail with an error unrelated to the content
MaxPlanned == 2    \* planned payments in the store
MaxTxnId == 2      \* POST /api/transactions is answered while the next id is at most this
MaxSavingId == 2   \* POST /api/savings/entries is answered while the next id is at most this

CallIds == 1..MaxCalls
ImportIds == 1..MaxImports

(***************************************************************************)
(* Values.  SQL NULL / JS null of an id column is 0 (ids are positive, and *)
(* the handlers test them with `||` and `if (x)`, for which 0 and null     *)
(* agree).  A null / absent string is "".                                  *)
(***************************************************************************)
NULL == 0
NOSTR == ""

Abs(n) == IF n < 0 THEN -n ELSE n

Or_Mut(a, b) == a                              \* the fallback forgotten
Or(a, b) == IF a # NULL THEN a ELSE b          \* JS `a || b` on ids
OrStr(a, b) == IF a # NOSTR THEN a ELSE b      \* JS `a || b` on strings

Put(t, k, row) == [x \in DOMAIN t \cup {k} |-> IF x = k THEN row ELSE t[x]]

\* the table without the row of key k
Remove(t, k) == [x \in DOMAIN t \ {k} |-> t[x]]

Max(a, b) == IF a > b THEN a ELSE b

statusEnum == <<"planned", "executed", "canceled">>
transactionTypeEnum == {"income", "expense", "transfer", "adjustment"}

Users == {1, 2}
TxnDates == {"2024-01-12"}
Descriptions == {NOSTR}

(***************************************************************************)
(* The store at start: two users, one account each, one global category    *)
(* and MaxPlanned planned payments, as POST /api/users, /api/accounts,     *)
(* /api/categories and /api/planned store them.                            *)
(***************************************************************************)
InitAccounts ==
    (1 :> [user_id |-> 1, name |-> "Main", type |-> "bank", currency |-> "AUD", is_active |-> 1])
    @@ (2 :> [user_id |-> 2, name |-> "Other", type |-> "cash", currency |-> "AUD", is_active |-> 1])

InitCategories ==
    (1 :> [user_id |-> NULL, name |-> "Rent", kind |-> "expense"])
    @@ (2 :> [user_id |-> 1, name |-> "Gifts", kind |-> "expense"])

\* What POST /api/planned stores (planned.ts:114-125): status 'planned', no linked
\* transaction, a positive amount, an account of the same user or none.
PostedPlanned(id) ==
    [ user_id |-> 1,
      account_id |-> IF id % 2 = 1 THEN 1 ELSE NULL,
      description |-> "rent",
      amount_cents |-> 30 * id,
      due_date |-> IF id % 2 = 1 THEN "2024-01-10" ELSE "2024-01-15",
      auto_debit |-> 0,
      status |-> "planned",
      linked_txn_id |-> NULL ]

\* What POST /api/pay-periods stores (payPeriods.ts:64-76): one pay period per user.
InitPayPeriods ==
    (1 :> [user_id |-> 1, pay_date |-> "2024-01-01", gross_income_cents |-> 0,
           note |-> NOSTR])
    @@ (2 :> [user_id |-> 2, pay_date |-> "2024-01-01", gross_income_cents |-> 0,
              note |-> NOSTR])

\* What POST /api/savings/goals stores (goals.ts:87-96): one goal per user.
InitGoals ==
    (1 :> [user_id |-> 1, name |-> "Car", target_amount_cents |-> 40, target_date |-> "2030-01-01"])
    @@ (2 :> [user_id |-> 2, name |-> "Trip", target_amount_cents |-> 100, target_date |-> "2030-01-01"])

InitPlanned == [id \in 1..MaxPlanned |-> PostedPlanned(id)]

InitDb ==
    [ accounts |-> InitAccounts,
      categories |-> InitCategories,
      cat_auto_inc |-> Cardinality(DOMAIN InitCategories) + 1,
      planned_payments |-> InitPlanned,
      transactions |-> <<>>,
      txn_auto_inc |-> 1,
      pay_periods |-> InitPayPeriods,
      pp_auto_inc |-> Cardinality(DOMAIN InitPayPeriods) + 1,
      saving_entries |-> <<>>,
      saving_auto_inc |-> 1,
      saving_goals |-> InitGoals,
      saving_entry_goals |-> {} ]

NoPlanned == [user_id |-> NULL, account_id |-> NULL, description |-> NOSTR,
              amount_cents |-> 0, status |-> NOSTR]
NoPayPeriod == [user_id |-> NULL, pay_date |-> NOSTR, gross_income_cents |-> 0, note |-> NOSTR]
NoCategory == [user_id |-> NULL, name |-> NOSTR, kind |-> NOSTR]
NoInput == [txn_date |-> NOSTR, account_id |-> NULL, category_id |-> NULL, description |-> NOSTR]

IdleCall ==
    [ op |-> "none", pc |-> "idle", id |-> NULL, plannedPayment |-> NoPlanned,
      validatedData |-> NoInput, accountId |-> NULL, insertId |-> NULL,
      result |-> "pending", txn_id |-> NULL,
      \* assign-goal: the goal of the request (id is its entry) and the user of
      \* the entry it selected
      goalId |-> NULL, entry |-> NULL,
      \* create-category: the body of the request
      category |-> NoCategory,
      \* upsert of a pay period: the body of the request and result.affectedRows
      payPeriod |-> NoPayPeriod, affectedRows |-> 0 ]

\* Requests are issued in the order of their slots.
CanStart(c) == calls[c].pc = "idle" /\ \A d \in CallIds : d < c => calls[d].pc # "idle"

\* The handler answers; its locals go with its frame.
Respond(c, kind) ==
    [calls EXCEPT ![c] = [@ EXCEPT !.pc = "done", !.result = kind,
                                   !.plannedPayment = NoPlanned,
                                   !.validatedData = NoInput,
                                   !.accountId = NULL,
                                   !.entry = NULL,
                                   !.category = NoCategory,
                                   !.payPeriod = NoPayPeriod,
                                   !.affectedRows = 0]]

(***************************************************************************)
(* PATCH /api/planned/:id/execute                                          *)
(***************************************************************************)
\* The request body is fixed when the request arrives.  A field of it is drawn at
\* the step of the handler that first reads it and kept in validatedData from
\* there on: nothing observes it earlier, so the behaviours are the same.
PlannedIdInputs == 1..(MaxPlanned + 1)

\* a status test that lets a canceled payment through
IsPlanned_Mut(plannedPayment) == plannedPayment.status # "executed"

\* planned.ts:174 and planned.ts:281: the status test of execute and of cancel
IsPlanned(plannedPayment) == plannedPayment.status = "planned"

\* the amount taken over without forcing its sign
ExecuteAmount_Mut(plannedPayment) == plannedPayment.amount_cents

\* planned.ts:223
ExecuteAmount(plannedPayment) == -Abs(plannedPayment.amount_cents)

SelectedPlanned(id) ==
    LET row == db.planned_payments[id] IN
    [ user_id |-> row.user_id, account_id |-> row.account_id,
      description |-> row.description, amount_cents |-> row.amount_cents,
      status |-> row.status ]

\* The SELECT of the payment, the status test and the choice of the account.
ExecuteSelectPlanned(c, id, account_id) ==
    /\ CanStart(c)
    /\ UNCHANGED <<db, imports, faults, reads>>
    /\ LET started == [calls[c] EXCEPT !.op = "execute", !.id = id] IN
       IF id \notin DOMAIN db.planned_payments
       THEN calls' = [calls EXCEPT ![c] = [started EXCEPT !.pc = "done", !.result = "NotFound"]]
       ELSE LET plannedPayment == SelectedPlanned(id)
                accountId == Or(account_id, plannedPayment.account_id)
            IN  IF ~IsPlanned(plannedPayment)
                THEN calls' = [calls EXCEPT ![c] =
                        [started EXCEPT !.pc = "done", !.result = "InvalidState"]]
                ELSE IF accountId = NULL
                THEN calls' = [calls EXCEPT ![c] =
                        [started EXCEPT !.pc = "done", !.result = "MissingAccount"]]
                ELSE calls' = [calls EXCEPT ![c] =
                        [started EXCEPT !.pc = "selectAccount",
                                        !.plannedPayment = plannedPayment,
                                        !.validatedData.account_id = account_id,
                                        !.accountId = accountId]]

\* SELECT id FROM accounts WHERE id = ? AND user_id = ?
ExecuteSelectAccount(c, category_id) ==
    /\ calls[c].op = "execute" /\ calls[c].pc = "selectAccount"
    /\ UNCHANGED <<db, imports, faults, reads>>
    /\ LET found == /\ calls[c].accountId \in DOMAIN db.accounts
                    /\ db.accounts[calls[c].accountId].user_id = calls[c].plannedPayment.user_id
       IN  IF ~found
           THEN /\ category_id = NULL
                /\ calls' = Respond(c, "NotFound")
           ELSE calls' = [calls EXCEPT
                    ![c].validatedData.category_id = category_id,
                    ![c].pc = IF category_id # NULL THEN "selectCategory" ELSE "insertTxn"]

\* SELECT id FROM categories WHERE id = ?
ExecuteSelectCategory(c) ==
    /\ calls[c].op = "execute" /\ calls[c].pc = "selectCategory"
    /\ UNCHANGED <<db, imports, faults, reads>>
    /\ IF calls[c].validatedData.category_id \notin DOMAIN db.categories
       THEN calls' = Respond(c, "NotFound")
       ELSE calls' = [calls EXCEPT ![c].pc = "insertTxn"]

\* INSERT INTO transactions (...) VALUES (?, ?, ?, 'expense', ?, ?, ?, ?)
ExecuteInsertTxn(c, txn_date, description) ==
    /\ calls[c].op = "execute" /\ calls[c].pc = "insertTxn"
    /\ LET insertId == db.txn_auto_inc IN
       /\ db' = [db EXCEPT
             !.transactions = Put(@, insertId,
                 [ user_id |-> calls[c].plannedPayment.user_id,
                   pay_period_id |-> NULL,
                   account_id |-> calls[c].accountId,
                   category_id |-> calls[c].validatedData.category_id,
                   type |-> "expense",
                   amount_cents |-> ExecuteAmount(calls[c].plannedPayment),
                   description |-> OrStr(description, calls[c].plannedPayment.description),
                   txn_date |-> txn_date,
                   planned_payment_id |-> calls[c].id,
                   counterparty_user_id |-> NULL ]),
             !.txn_auto_inc = @ + 1]
       /\ calls' = [calls EXCEPT ![c].pc = "updatePlanned", ![c].insertId = insertId,
                                 ![c].validatedData.txn_date = txn_date,
                                 ![c].validatedData.description = description]
    /\ UNCHANGED <<imports, faults, reads>>

\* UPDATE planned_payments SET status = 'executed', linked_txn_id = ? WHERE id = ?
ExecuteUpdatePlanned(c) ==
    /\ calls[c].op = "execute" /\ calls[c].pc = "updatePlanned"
    /\ db' = [db EXCEPT !.planned_payments =
          [p \in DOMAIN @ |->
              IF p = calls[c].id
              THEN [@[p] EXCEPT !.status = "executed", !.linked_txn_id = calls[c].insertId]
              ELSE @[p]]]
    /\ calls' = [Respond(c, "ok") EXCEPT ![c].txn_id = calls[c].insertId]
    /\ UNCHANGED <<imports, faults, reads>>

(***************************************************************************)
(* PATCH /api/planned/:id/cancel                                           *)
(***************************************************************************)
CancelSelectPlanned(c, id) ==
    /\ CanStart(c)
    /\ UNCHANGED <<db, imports, faults, reads>>
    /\ LET started == [calls[c] EXCEPT !.op = "cancel", !.id = id] IN
       IF id \notin DOMAIN db.planned_payments
       THEN calls' = [calls EXCEPT ![c] = [started EXCEPT !.pc = "done", !.result = "NotFound"]]
       ELSE IF ~IsPlanned(SelectedPlanned(id))
       THEN calls' = [calls EXCEPT ![c] =
               [started EXCEPT !.pc = "done", !.result = "InvalidState"]]
       ELSE calls' = [calls EXCEPT ![c] = [started EXCEPT !.pc = "updateCancel"]]

\* a cancel that also detaches the account
CanceledRow_Mut(row) == [row EXCEPT !.status = "canceled", !.account_id = NULL]

\* planned.ts:289: SET status = 'canceled'
CanceledRow(row) == [row EXCEPT !.status = "canceled"]

\* UPDATE planned_payments SET status = 'canceled' WHERE id = ?
CancelUpdatePlanned(c) ==
    /\ calls[c].op = "cancel" /\ calls[c].pc = "updateCancel"
    /\ db' = [db EXCEPT !.planned_payments =
          [p \in DOMAIN @ |-> IF p = calls[c].id THEN CanceledRow(@[p]) ELSE @[p]]]
    /\ calls' = Respond(c, "ok")
    /\ UNCHANGED <<imports, faults, reads>>

(***************************************************************************)
(* POST /api/transactions (transactions.ts:95-199).  The sign test comes   *)
(* first; the user, account and category it then looks up are rows no      *)
(* modelled handler removes or re-owns, so the lookups and the INSERT are   *)
(* one step.  A request that is refused leaves the store as it is.          *)
(***************************************************************************)
validateAmountSign(type, amount_cents) ==
    IF type = "income" \/ type = "adjustment" THEN amount_cents > 0
    ELSE IF type = "expense" \/ type = "transfer" THEN amount_cents < 0
    ELSE FALSE

createTransactionSchema ==
    [ user_id : {1}, pay_period_id : {NULL}, account_id : {1, 2}, category_id : {NULL, 1},
      type : transactionTypeEnum, amount_cents : {-120, 0, 500},
      description : {NOSTR}, txn_date : {"2024-01-05"},
      planned_payment_id : {NULL}, counterparty_user_id : {NULL} ]

PostTransaction(validatedData) ==
    /\ db.txn_auto_inc <= MaxTxnId
    /\ validateAmountSign(validatedData.type, validatedData.amount_cents)
    /\ validatedData.user_id \in Users
    /\ validatedData.account_id \in DOMAIN db.accounts
    /\ db.accounts[validatedData.account_id].user_id = validatedData.user_id
    /\ validatedData.category_id # NULL => validatedData.category_id \in DOMAIN db.categories
    /\ validatedData.pay_period_id # NULL =>
          /\ validatedData.pay_period_id \in DOMAIN db.pay_periods
          /\ db.pay_periods[validatedData.pay_period_id].user_id = validatedData.user_id
    /\ db' = [db EXCEPT !.transactions = Put(@, db.txn_auto_inc, validatedData),
                        !.txn_auto_inc = @ + 1]
    /\ UNCHANGED <<calls, imports, faults, reads>>

(***************************************************************************)
(* A store call of execute or cancel throws (connection lost, timeout):    *)
(* the handler's catch answers 500 and nothing the handler wrote before is *)
(* undone, since no statement runs inside a store transaction.             *)
(***************************************************************************)
CallQueryFails(c) ==
    /\ calls[c].pc \notin {"idle", "done"}
    /\ faults < MaxFaults
    /\ faults' = faults + 1
    /\ calls' = Respond(c, "StoreUnavailable")
    /\ UNCHANGED <<db, imports, reads>>

(***************************************************************************)
(* Dates.  A DATE is written as 'YYYY-MM-DD'; the store and the handlers   *)
(* compare and shift dates by the calendar, here by the day number of the  *)
(* date counted from 2024-01-01.  The handlers read a DATE column into a   *)
(* Date and print it with toISOString (summary.ts:31-38).                  *)
(***************************************************************************)
DayNumber ==
    ("2023-12-31" :> -1) @@ ("2024-01-01" :> 0) @@ ("2024-01-03" :> 2)
    @@ ("2024-01-04" :> 3) @@ ("2024-01-05" :> 4) @@ ("2024-01-08" :> 7)
    @@ ("2024-01-09" :> 8) @@ ("2024-01-10" :> 9) @@ ("2024-01-11" :> 10)
    @@ ("2024-01-12" :> 11) @@ ("2024-01-13" :> 12) @@ ("2024-01-14" :> 13)
    @@ ("2024-01-15" :> 14) @@ ("2029-12-30" :> 2190) @@ ("2029-12-31" :> 2191)
    @@ ("2030-01-01" :> 2192)

\* summary.ts:35: endDate.setDate(endDate.getDate() + 14)
WindowDays == 14

\* the date n days after date, as toISOString().split('T')[0] prints it
AddDays(date, n) ==
    CHOOSE d \in DOMAIN DayNumber : DayNumber[d] = DayNumber[date] + n

\* The time zone of the process: at UTC (or west of it), or east of UTC.
Clocks == {"utc", "east"}

\* summary.ts:31, 37-38: the driver builds the Date of a DATE column at midnight
\* of the process's time zone and toISOString prints the UTC day of that
\* instant, which east of UTC is the day before
ToISODate(date, clock) == IF clock = "east" THEN AddDays(date, -1) ELSE date

\* export.ts:118: res.json prints the Date of a DATE or TIMESTAMP column with
\* toJSON, the UTC instant of midnight in the process's time zone (east: UTC+10)
ISOInstant(date, clock) ==
    IF clock = "east" THEN AddDays(date, -1) \o "T14:00:00.000Z"
    ELSE date \o "T00:00:00.000Z"

\* the strings of that form
ISOInstants ==
    {d \o time : d \in DOMAIN DayNumber, time \in {"T14:00:00.000Z", "T00:00:00.000Z"}}

\* The date the store reads from a string bound to a DATE column outside strict
\* mode: the date at the head of the string, what follows being cut off
DatePart(str) ==
    IF str \in ISOInstants
    THEN CHOOSE d \in DOMAIN DayNumber :
            str \in {d \o "T14:00:00.000Z", d \o "T00:00:00.000Z"}
    ELSE str

\* SUM(f[k]) over the rows k of keys; COALESCE(..., 0) over no row
RECURSIVE SumOver(_, _)
SumOver(f, keys) ==
    IF keys = {} THEN 0
    ELSE LET k == CHOOSE x \in keys : TRUE IN f[k] + SumOver(f, keys \ {k})

(***************************************************************************)
(* POST /api/import (export.ts:129-326).                                   *)
(*                                                                         *)
(* A record of the batch is the tuple Object.values(record) of its values  *)
(* in key order; the records drawn here have the key order of the export   *)
(* (export.ts:46-101), which is the column order of the INSERT statements. *)
(* mysql2 binds the tuple to the placeholders of a statement by position   *)
(* and ignores the values left over; a statement with a placeholder left   *)
(* unbound is rejected by the store.                                       *)
(***************************************************************************)
ImportTables == <<"accounts", "transactions", "planned_payments", "saving_goals">>

\* export.ts:193-194, 237-240, 253-255, 284-285: the number of placeholders of
\* the INSERT
InsertArity(t) ==
    CASE t = "accounts" -> 7
      [] t = "transactions" -> 12
      [] t = "planned_payments" -> 10
      [] t = "saving_goals" -> 6

\* an updateQuery passed for every table
HasUpdateQuery_Mut(t) == TRUE

\* export.ts:195, 256, 286: the tables whose processImport call passes an
\* updateQuery
HasUpdateQuery(t) == t \in {"accounts", "planned_payments", "saving_goals"}

ZeroCounts == [inserted |-> 0, updated |-> 0, skipped |-> 0]

IdleImport ==
    [ pc |-> "idle", dryRun |-> FALSE, data |-> <<>>, table |-> 0, k |-> 0,
      local |-> ZeroCounts, details |-> <<>>,
      inserted |-> 0, updated |-> 0, skipped |-> 0,
      result |-> "pending",
      \* history, for the properties: the records whose insert was attempted, the
      \* error the last record's insert raised, the store failures that hit this
      \* request, and the store as it was when the request arrived
      attempted |-> 0, lastError |-> NOSTR, faulted |-> FALSE, before |-> InitDb,
      \* whether the body of the request failed importDataSchema
      malformed |-> FALSE ]

Table(st) == ImportTables[st.table]
Record(st) == st.data[Table(st)][st.k]

\* the skipped records left out of the total
CloseTable_Mut(st) ==
    [st EXCEPT !.details = Put(@, Table(st), st.local),
               !.inserted = @ + st.local.inserted,
               !.updated = @ + st.local.updated]

\* export.ts:185 and 197-200: processImport returns its counts; the caller files
\* them under the table's name and adds them to the totals
CloseTable(st) ==
    [st EXCEPT !.details = Put(@, Table(st), st.local),
               !.inserted = @ + st.local.inserted,
               !.updated = @ + st.local.updated,
               !.skipped = @ + st.local.skipped]

\* export.ts:189-311: the next table of the batch that has a record to process;
\* a table given as an empty list reports zero counts (export.ts:154), a table
\* not given reports nothing; after the last table the handler answers
RECURSIVE NextTable(_)
NextTable(st) ==
    LET n == st.table + 1 IN
    IF n > Len(ImportTables)
    THEN [st EXCEPT !.pc = "done", !.result = "ok", !.table = n, !.k = 0, !.local = ZeroCounts]
    ELSE LET t == ImportTables[n] IN
         IF t \notin DOMAIN st.data
         THEN NextTable([st EXCEPT !.table = n])
         ELSE IF Len(st.data[t]) = 0
         THEN NextTable([st EXCEPT !.table = n, !.details = Put(@, t, ZeroCounts)])
         ELSE [st EXCEPT !.table = n, !.k = 1, !.local = ZeroCounts, !.pc = "insert"]

\* export.ts:160: the for loop goes to the next record, or the table is finished
AfterRecord(st) ==
    IF st.k < Len(st.data[Table(st)])
    THEN [st EXCEPT !.k = @ + 1, !.pc = "insert"]
    ELSE NextTable(CloseTable(st))

\* a dry run that counts every record as skipped
DryRunDetails_Mut(data) ==
    [t \in DOMAIN data |-> [inserted |-> 0, updated |-> 0, skipped |-> Len(data[t])]]

\* export.ts:164: in dry-run mode every record is counted as inserted
DryRunDetails(data) ==
    [t \in DOMAIN data |-> [inserted |-> Len(data[t]), updated |-> 0, skipped |-> 0]]

RECURSIVE SumLen(_, _)
SumLen(data, ts) ==
    IF ts = {} THEN 0
    ELSE LET t == CHOOSE x \in ts : TRUE IN Len(data[t]) + SumLen(data, ts \ {t})

\* the dry-run flag not consulted
IsDryRun_Mut(st) == FALSE

\* export.ts:162
IsDryRun(st) == st.dryRun

\* The INSERT of one record (export.ts:168), bound by position.
InsertedRow(t, values) ==
    CASE t = "accounts" ->
           [ user_id |-> values[2], name |-> values[3], type |-> values[4],
             currency |-> values[5], is_active |-> values[6] ]
      [] t = "transactions" ->
           [ user_id |-> values[2], pay_period_id |-> values[3], account_id |-> values[4],
             category_id |-> values[5], type |-> values[6], amount_cents |-> values[7],
             description |-> values[8], txn_date |-> DatePart(values[9]),
             planned_payment_id |-> values[10], counterparty_user_id |-> values[11] ]
      [] t = "planned_payments" ->
           [ user_id |-> values[2], account_id |-> values[3], description |-> values[4],
             amount_cents |-> values[5], due_date |-> DatePart(values[6]),
             auto_debit |-> values[7],
             status |-> values[8], linked_txn_id |-> values[9] ]
      [] t = "saving_goals" ->
           [ user_id |-> values[2], name |-> values[3],
             target_amount_cents |-> values[4], target_date |-> DatePart(values[5]) ]

\* What the store answers to the INSERT: a placeholder left unbound is a syntax
\* error, an id already in the table is a duplicate key.
InsertError(t, values) ==
    IF Len(values) < InsertArity(t) THEN "ER_PARSE_ERROR"
    ELSE IF values[1] \in DOMAIN db[t] THEN "ER_DUP_ENTRY"
    ELSE NOSTR

\* every record stored as a row of accounts
InsertInto_Mut(t, values) ==
    [db EXCEPT !.accounts = Put(@, values[1], InsertedRow(t, values))]

InsertInto(t, values) ==
    IF t = "transactions"
    THEN [db EXCEPT !.transactions = Put(@, values[1], InsertedRow(t, values)),
                    !.txn_auto_inc = Max(@, values[1] + 1)]
    ELSE [db EXCEPT ![t] = Put(@, values[1], InsertedRow(t, values))]

(***************************************************************************)
(* The UPDATE after a duplicate key (export.ts:175-176) is given the same  *)
(* tuple as the INSERT, so its placeholders take the first values of the   *)
(* record, not the values of the columns they name:                        *)
(*   UPDATE accounts SET name=<id>, type=<user_id>, currency=<name>,       *)
(*          is_active=<type> WHERE id=<currency>                           *)
(*   UPDATE planned_payments SET status=<id>, linked_txn_id=<user_id>      *)
(*          WHERE id=<account_id>                                          *)
(*   UPDATE saving_goals SET name=<id>, target_amount_cents=<user_id>,     *)
(*          target_date=<name> WHERE id=<target_amount_cents>              *)
(* accounts: the WHERE compares the integer key with the currency code, a  *)
(* non-numeric string; MySQL in strict mode rejects the statement and      *)
(* otherwise reads the string as 0 and matches no row.                     *)
(* planned_payments: a number stored into the enumerated status column is  *)
(* the index of the member (statusEnum, planned.ts:9); an index out of     *)
(* range is rejected in strict mode and stored as '' otherwise.            *)
(* saving_goals: the name bound to the DATE column is rejected in strict   *)
(* mode on a row the WHERE matches and stored as the zero date otherwise.  *)
(***************************************************************************)
EnumMember(n) == IF n \in 1..Len(statusEnum) THEN statusEnum[n] ELSE NOSTR

\* a string stored into a DATE column outside strict mode
ZeroDate(str) == IF str \in DOMAIN DayNumber THEN str ELSE "0000-00-00"

\* the id the WHERE of the update selects (NULL: no row)
UpdateWhereId(t, values) ==
    CASE t = "planned_payments" -> values[3]
      [] t = "saving_goals" -> values[4]
      [] OTHER -> NULL

\* whether the store may reject the update because of the types of what is bound
UpdateIllTyped(t, values) ==
    CASE t = "accounts" -> TRUE
      [] t = "planned_payments" ->
           /\ UpdateWhereId(t, values) \in DOMAIN db.planned_payments
           /\ values[1] \notin 1..Len(statusEnum)
      [] t = "saving_goals" ->
           /\ UpdateWhereId(t, values) \in DOMAIN db.saving_goals
           /\ values[3] \notin DOMAIN DayNumber
      [] OTHER -> FALSE

UpdateApplied(t, values) ==
    CASE t = "planned_payments" ->
           [db EXCEPT !.planned_payments =
               [p \in DOMAIN @ |->
                   IF p = UpdateWhereId(t, values)
                   THEN [@[p] EXCEPT !.status = EnumMember(values[1]),
                                     !.linked_txn_id = values[2]]
                   ELSE @[p]]]
      [] t = "saving_goals" ->
           [db EXCEPT !.saving_goals =
               [g \in DOMAIN @ |->
                   IF g = UpdateWhereId(t, values)
                   THEN [@[g] EXCEPT !.name = ToString(values[1]),
                                     !.target_amount_cents = values[2],
                                     !.target_date = ZeroDate(values[3])]
                   ELSE @[g]]]
      [] OTHER -> db

(***************************************************************************)
(* The request body as importDataSchema sees it (export.ts:9-21): the kind *)
(* of value under dryRun, under data, and under each table of data.        *)
(***************************************************************************)
ImportTableNames == {ImportTables[n] : n \in DOMAIN ImportTables}

BodyShapes ==
    [ dryRun : {"boolean", "absent", "string"},
      data : {"object", "absent", "array"},
      tables : [ImportTableNames -> {"array", "absent", "object"}] ]

\* z.object({ dryRun: z.boolean().optional(), data: z.object({ t: z.array(z.any())
\* .optional(), ... }) })
importDataSchema(body) ==
    /\ body.dryRun \in {"boolean", "absent"}
    /\ body.data = "object"
    /\ \A t \in ImportTableNames : body.tables[t] \in {"array", "absent"}

\* a schema failure answered as an internal error
ZodError_Mut(st) == [st EXCEPT !.pc = "done", !.result = "StoreUnavailable"]

\* export.ts:313-319: the ZodError of parse is answered 400 'Validation failed'
ZodError(st) == [st EXCEPT !.pc = "done", !.result = "InvalidInput"]

\* Import requests are handled one after the other.
CanImport(i) ==
    /\ imports[i].pc = "idle"
    /\ \A j \in ImportIds : j < i => imports[j].pc = "done"

\* export.ts:132-186: the body is parsed; in dry-run mode no statement is issued
\* and the handler answers at once.
ImportStart(i, dryRun, data) ==
    /\ CanImport(i)
    /\ LET st == [IdleImport EXCEPT !.dryRun = dryRun, !.data = data, !.before = db] IN
       imports' = [imports EXCEPT ![i] =
          IF IsDryRun(st)
          THEN [st EXCEPT !.pc = "done", !.result = "ok",
                          !.table = Len(ImportTables) + 1,
                          !.details = DryRunDetails(data),
                          !.inserted = SumLen(data, DOMAIN data)]
          ELSE NextTable(st)]
    /\ UNCHANGED <<db, calls, faults, reads>>

\* export.ts:132: importDataSchema.parse(req.body) throws on a body that does not
\* fit; nothing has been issued to the store
ImportMalformed(i, body) ==
    /\ CanImport(i)
    /\ ~importDataSchema(body)
    /\ imports' = [imports EXCEPT ![i] =
          ZodError([IdleImport EXCEPT !.before = db, !.malformed = TRUE])]
    /\ UNCHANGED <<db, calls, faults, reads>>

\* export.ts:166-182: the INSERT of the current record and the catch around it
ImportInsert(i) ==
    /\ imports[i].pc = "insert"
    /\ LET st == [imports[i] EXCEPT !.attempted = @ + 1]
           t == Table(st)
           values == Record(st)
           err == InsertError(t, values)
           caught == [st EXCEPT !.lastError = err]
       IN  IF err = NOSTR
           THEN /\ db' = InsertInto(t, values)
                /\ imports' = [imports EXCEPT ![i] =
                      AfterRecord([caught EXCEPT !.local.inserted = @ + 1])]
           ELSE /\ db' = db
                /\ imports' = [imports EXCEPT ![i] =
                      IF err = "ER_DUP_ENTRY" /\ HasUpdateQuery(t)
                      THEN [caught EXCEPT !.pc = "update"]
                      ELSE AfterRecord([caught EXCEPT !.local.skipped = @ + 1])]
    /\ UNCHANGED <<calls, faults, reads>>

\* The INSERT throws for a reason unrelated to the record: the catch counts the
\* record as skipped (export.ts:179-181).
ImportInsertFails(i) ==
    /\ imports[i].pc = "insert"
    /\ faults < MaxFaults
    /\ faults' = faults + 1
    /\ imports' = [imports EXCEPT ![i] =
          AfterRecord([imports[i] EXCEPT !.attempted = @ + 1,
                                         !.lastError = "STORE_UNAVAILABLE",
                                         !.faulted = TRUE,
                                         !.local.skipped = @ + 1])]
    /\ UNCHANGED <<db, calls, reads>>

\* export.ts:168: the positions of a record bound to DATE or TIMESTAMP columns
DateColumns(t) ==
    CASE t = "accounts" -> {7}
      [] t = "transactions" -> {9, 12}
      [] t = "planned_payments" -> {6, 10}
      [] t = "saving_goals" -> {5, 6}

\* export.ts:168, 179-181: the store in strict mode, which MySQL runs in unless
\* configured otherwise, rejects an INSERT that binds a string with anything
\* after the date or time to a DATE or TIMESTAMP column (the Z of toJSON); the
\* error is no duplicate key and the record is counted as skipped
ImportInsertRejected(i) ==
    /\ imports[i].pc = "insert"
    /\ LET st == imports[i]
           t == Table(st)
           values == Record(st)
       IN  /\ Len(values) >= InsertArity(t)
           /\ values[1] \notin DOMAIN db[t]
           /\ \E k \in DateColumns(t) : values[k] \in ISOInstants
           /\ imports' = [imports EXCEPT ![i] =
                 AfterRecord([st EXCEPT !.attempted = @ + 1,
                                        !.lastError = "ER_TRUNCATED_WRONG_VALUE",
                                        !.local.skipped = @ + 1])]
    /\ UNCHANGED <<db, calls, faults, reads>>

\* export.ts:313-325: an error thrown outside processImport's try ends the
\* request with 500
ImportAbort(st) == [st EXCEPT !.pc = "done", !.result = "StoreUnavailable"]

\* export.ts:174-178: the UPDATE, inside the catch block
ImportUpdate(i, rejected) ==
    /\ imports[i].pc = "update"
    /\ LET st == imports[i]
           t == Table(st)
           values == Record(st)
       IN  IF rejected
           THEN /\ UpdateIllTyped(t, values)
                /\ db' = db
                /\ imports' = [imports EXCEPT ![i] = ImportAbort(st)]
           ELSE /\ db' = UpdateApplied(t, values)
                /\ imports' = [imports EXCEPT ![i] =
                      AfterRecord([st EXCEPT !.local.updated = @ + 1])]
    /\ UNCHANGED <<calls, faults, reads>>

\* The UPDATE throws for a reason unrelated to the record.
ImportUpdateFails(i) ==
    /\ imports[i].pc = "update"
    /\ faults < MaxFaults
    /\ faults' = faults + 1
    /\ imports' = [imports EXCEPT ![i] = ImportAbort([imports[i] EXCEPT !.faulted = TRUE])]
    /\ UNCHANGED <<db, calls, reads>>

(***************************************************************************)
(* The batches drawn: per table, not given or one of a few lists.          *)
(***************************************************************************)
AccountRecord(id) == <<id, 1, "Savings", "savings", "AUD", 1, "2024-01-01 00:00:00">>

TxnRecord(id, type, amount_cents) ==
    <<id, 1, NULL, 1, NULL, type, amount_cents, NOSTR, "2024-01-05", NULL, NULL,
      "2024-01-05 00:00:00">>

PlannedRecord(id, account_id, status, linked_txn_id) ==
    <<id, 1, account_id, "rent", 30 * id, "2024-01-10", 0, status, linked_txn_id,
      "2024-01-01 00:00:00">>

AccountLists == { <<AccountRecord(3), AccountRecord(4)>> }

TransactionLists ==
    { <<TxnRecord(1, "income", 500), TxnRecord(2, "expense", 120)>>,
      <<<<3, 1>>, TxnRecord(2, "expense", -120)>> }

PlannedLists == { <<PlannedRecord(1, 1, "planned", NULL)>> }

ListsOf(t) ==
    CASE t = "accounts" -> AccountLists
      [] t = "transactions" -> TransactionLists
      [] t = "planned_payments" -> PlannedLists

\* data: the tables given, each with its list
Batches(tables) ==
    UNION { { data \in [ts -> UNION {ListsOf(t) : t \in ts}] :
                \A t \in ts : data[t] \in ListsOf(t) } : ts \in SUBSET tables }

ImportBatches == Batches({"accounts", "transactions", "planned_payments"})
MixedBatches == Batches({"transactions", "planned_payments"})

(***************************************************************************)
(* The read-side requests.  A request in flight interleaves with the       *)
(* writers at each of its queries; read-side requests do not write, so     *)
(* they are taken one at a time: `reads` is the request in flight, or the  *)
(* last one answered.                                                      *)
(***************************************************************************)
IdleRead ==
    [ op |-> "none", pc |-> "idle", id |-> NULL, result |-> "pending",
      user_id |-> NULL, payDateStr |-> NOSTR, endDateStr |-> NOSTR,
      income_in_cents |-> 0, expenses_out_cents |-> 0, savings_out_cents |-> 0,
      reserved_planned_cents |-> 0, leftover_cents |-> 0,
      total_saved_cents |-> 0, total_withdrawn_cents |-> 0, net_saved_cents |-> 0,
      goals |-> <<>>, data |-> <<>> ]

CanRead == reads.pc \in {"idle", "done"}

\* a read-side handler that also writes: it clears the links it has read
ReadOnly_Mut ==
    /\ db' = [db EXCEPT !.saving_entry_goals = {}]
    /\ UNCHANGED <<calls, imports, faults>>

\* Every statement of the read-side handlers is a SELECT (summary.ts:19-83,
\* part_001:120-156, goals.ts:28-45, export.ts:35-101): a step of one of them
\* changes nothing but the request's own frame.
ReadOnly == UNCHANGED <<db, calls, imports, faults>>

StartRead(op, id) == [IdleRead EXCEPT !.op = op, !.id = id]

PayPeriodIdInputs == 1..3

(***************************************************************************)
(* GET /api/summary/pay-period/:id (summary.ts:8-106)                      *)
(***************************************************************************)
\* summary.ts:42-46
IncomeRows(payPeriodId) ==
    {t \in DOMAIN db.transactions :
        /\ db.transactions[t].pay_period_id = payPeriodId
        /\ db.transactions[t].type \in {"income", "adjustment"}
        /\ db.transactions[t].amount_cents > 0}

\* summary.ts:54-58
ExpenseRows(payPeriodId) ==
    {t \in DOMAIN db.transactions :
        /\ db.transactions[t].pay_period_id = payPeriodId
        /\ db.transactions[t].type \in {"expense", "transfer"}
        /\ db.transactions[t].amount_cents < 0}

\* summary.ts:66-68
SavingRows(payPeriodId) ==
    {e \in DOMAIN db.saving_entries : db.saving_entries[e].pay_period_id = payPeriodId}

\* summary.ts:76-81: the window is [payDateStr, endDateStr)
ReservedRows(user_id, payDateStr, endDateStr) ==
    {p \in DOMAIN db.planned_payments :
        /\ db.planned_payments[p].user_id = user_id
        /\ db.planned_payments[p].status = "planned"
        /\ DayNumber[db.planned_payments[p].due_date] >= DayNumber[payDateStr]
        /\ DayNumber[db.planned_payments[p].due_date] < DayNumber[endDateStr]}

\* summary.ts:76: SUM(amount_cents)
ReservedTotal(rows) == SumOver([p \in rows |-> db.planned_payments[p].amount_cents], rows)

\* summary.ts:88
Leftover(income_in_cents, expenses_out_cents, savings_out_cents, reserved_planned_cents) ==
    income_in_cents - expenses_out_cents - savings_out_cents - reserved_planned_cents

\* summary.ts:19-38: the SELECT of the pay period and the window
SummarySelectPayPeriod(id, clock) ==
    /\ CanRead
    /\ LET started == StartRead("periodSummary", id) IN
       IF id \notin DOMAIN db.pay_periods
       THEN reads' = [started EXCEPT !.pc = "done", !.result = "NotFound"]
       ELSE LET payDate == db.pay_periods[id].pay_date
                endDate == AddDays(payDate, WindowDays)
            IN  reads' = [started EXCEPT !.pc = "income",
                               !.user_id = db.pay_periods[id].user_id,
                               !.payDateStr = ToISODate(payDate, clock),
                               !.endDateStr = ToISODate(endDate, clock)]
    /\ ReadOnly

\* summary.ts:41-50
SummaryIncome ==
    /\ reads.op = "periodSummary" /\ reads.pc = "income"
    /\ LET rows == IncomeRows(reads.id) IN
       reads' = [reads EXCEPT !.pc = "expenses",
                    !.income_in_cents =
                        SumOver([t \in rows |-> db.transactions[t].amount_cents], rows)]
    /\ ReadOnly

\* summary.ts:53-62
SummaryExpenses ==
    /\ reads.op = "periodSummary" /\ reads.pc = "expenses"
    /\ LET rows == ExpenseRows(reads.id) IN
       reads' = [reads EXCEPT !.pc = "savings",
                    !.expenses_out_cents =
                        SumOver([t \in rows |-> Abs(db.transactions[t].amount_cents)], rows)]
    /\ ReadOnly

\* summary.ts:65-72
SummarySavings ==
    /\ reads.op = "periodSummary" /\ reads.pc = "savings"
    /\ LET rows == SavingRows(reads.id) IN
       reads' = [reads EXCEPT !.pc = "planned",
                    !.savings_out_cents =
                        SumOver([e \in rows |-> db.saving_entries[e].amount_cents], rows)]
    /\ ReadOnly

\* summary.ts:75-98: the reserved total, the leftover and the answer
SummaryPlanned ==
    /\ reads.op = "periodSummary" /\ reads.pc = "planned"
    /\ LET reserved_planned_cents ==
              ReservedTotal(ReservedRows(reads.user_id, reads.payDateStr, reads.endDateStr))
       IN  reads' = [reads EXCEPT !.pc = "done", !.result = "ok",
                        !.reserved_planned_cents = reserved_planned_cents,
                        !.leftover_cents =
                            Leftover(reads.income_in_cents, reads.expenses_out_cents,
                                     reads.savings_out_cents, reserved_planned_cents)]
    /\ ReadOnly

(***************************************************************************)
(* POST /api/savings/entries (src/unnamed/part_002:72-146) and the link    *)
(* handlers of goals.ts, each taken as one step.                           *)
(***************************************************************************)
createSavingEntrySchema ==
    [ user_id : {1}, pay_period_id : {NULL, 1}, account_id : {1}, amount_cents : {50, -20},
      entry_date : {"2024-01-05"} ]

PostSavingEntry(validatedData) ==
    /\ db.saving_auto_inc <= MaxSavingId
    /\ validatedData.amount_cents # 0
    /\ validatedData.user_id \in Users
    /\ validatedData.account_id \in DOMAIN db.accounts
    /\ db.accounts[validatedData.account_id].user_id = validatedData.user_id
    /\ validatedData.pay_period_id # NULL =>
          /\ validatedData.pay_period_id \in DOMAIN db.pay_periods
          /\ db.pay_periods[validatedData.pay_period_id].user_id = validatedData.user_id
    /\ db' = [db EXCEPT !.saving_entries = Put(@, db.saving_auto_inc, validatedData),
                        !.saving_auto_inc = @ + 1]
    /\ UNCHANGED <<calls, imports, faults, reads>>

\* goals.ts:168-238: POST /api/savings/entries/:entryId/assign-goal/:goalId
AssignGoal(entryId, goalId) ==
    /\ entryId \in DOMAIN db.saving_entries
    /\ goalId \in DOMAIN db.saving_goals
    /\ db.saving_goals[goalId].user_id = db.saving_entries[entryId].user_id
    /\ <<entryId, goalId>> \notin db.saving_entry_goals
    /\ db' = [db EXCEPT !.saving_entry_goals = @ \cup {<<entryId, goalId>>}]
    /\ UNCHANGED <<calls, imports, faults, reads>>

\* goals.ts:241-286: DELETE /api/savings/entries/:entryId/assign-goal/:goalId
UnassignGoal(entryId, goalId) ==
    /\ <<entryId, goalId>> \in db.saving_entry_goals
    /\ db' = [db EXCEPT !.saving_entry_goals = @ \ {<<entryId, goalId>>}]
    /\ UNCHANGED <<calls, imports, faults, reads>>

(***************************************************************************)
(* DELETE /api/transactions/:id (transactions.ts:201-236): two statements. *)
(***************************************************************************)
TxnIdInputs == 1..(MaxTxnId + 1)

\* how the store may declare planned_payments.linked_txn_id
LinkedTxnKeys == {"none", "restrict", "setnull"}

\* SELECT id FROM transactions WHERE id = ?
DeleteTxnSelect(c, transactionId) ==
    /\ CanStart(c)
    /\ LET started == [calls[c] EXCEPT !.op = "deleteTransaction", !.id = transactionId] IN
       calls' = [calls EXCEPT ![c] =
          IF transactionId \notin DOMAIN db.transactions
          THEN [started EXCEPT !.pc = "done", !.result = "NotFound"]
          ELSE [started EXCEPT !.pc = "deleteTxn"]]
    /\ UNCHANGED <<db, imports, faults, reads>>

\* DELETE FROM transactions WHERE id = ?  The declaration of linked_txn_id decides
\* what happens to a transaction a planned payment links to: nothing declared,
\* the DELETE refused, or the link set to NULL.
DeleteTxnDelete(c, fk) ==
    /\ calls[c].op = "deleteTransaction" /\ calls[c].pc = "deleteTxn"
    /\ LET transactionId == calls[c].id
           linked == \E q \in DOMAIN db.planned_payments :
                        db.planned_payments[q].linked_txn_id = transactionId
       IN  /\ ~linked => fk = "none"
           /\ IF linked /\ fk = "restrict"
              THEN /\ db' = db
                   /\ calls' = Respond(c, "StoreUnavailable")
              ELSE /\ db' = [db EXCEPT
                         !.transactions = Remove(@, transactionId),
                         !.planned_payments =
                             [q \in DOMAIN @ |->
                                 IF fk = "setnull" /\ @[q].linked_txn_id = transactionId
                                 THEN [@[q] EXCEPT !.linked_txn_id = NULL]
                                 ELSE @[q]]]
                   /\ calls' = Respond(c, "ok")
    /\ UNCHANGED <<imports, faults, reads>>

(***************************************************************************)
(* POST /api/categories (part_000:46-96): the user when one is named, the  *)
(* duplicate check, the INSERT.  A body without user_id, or with null,     *)
(* creates a global category (user_id NULL).                               *)
(***************************************************************************)
createCategorySchema ==
    [ user_id : {NULL, 1, 3}, name : {"Rent", "Food"}, kind : {"expense"} ]

\* user_id <=> ? AND name = ?: NULL matches NULL and nothing else
SameCategoryKey(row, user_id, name) == row.user_id = user_id /\ row.name = name

\* part_000:67-70
CategoryExists(user_id, name) ==
    \E k \in DOMAIN db.categories : SameCategoryKey(db.categories[k], user_id, name)

CategorySelectUser(c, validatedData) ==
    /\ CanStart(c)
    /\ LET started == [calls[c] EXCEPT !.op = "createCategory", !.category = validatedData]
       IN  calls' = [calls EXCEPT ![c] =
              IF validatedData.user_id # NULL /\ validatedData.user_id \notin Users
              THEN [started EXCEPT !.pc = "done", !.result = "NotFound",
                                   !.category = NoCategory]
              ELSE [started EXCEPT !.pc = "selectExisting"]]
    /\ UNCHANGED <<db, imports, faults, reads>>

\* part_000:66-76: 409 when a row with the key is there
CategorySelectExisting(c) ==
    /\ calls[c].op = "createCategory" /\ calls[c].pc = "selectExisting"
    /\ calls' = IF CategoryExists(calls[c].category.user_id, calls[c].category.name)
                THEN Respond(c, "Conflict")
                ELSE [calls EXCEPT ![c].pc = "insertCategory"]
    /\ UNCHANGED <<db, imports, faults, reads>>

\* What the store answers to the INSERT of a category whose key is taken.  The
\* key of the table is (user_id, name); for a global category the store either
\* compares NULL with NULL as the handler's <=> does (nullSafeKey) or, as a
\* unique index does, takes two NULLs to differ and accepts the row.
CategoryInsertError(row, nullSafeKey) ==
    IF CategoryExists(row.user_id, row.name) /\ (row.user_id # NULL \/ nullSafeKey)
    THEN "ER_DUP_ENTRY"
    ELSE NOSTR

\* part_000:78-96: the INSERT; an error it raises is answered 500
CategoryInsert(c, nullSafeKey) ==
    /\ calls[c].op = "createCategory" /\ calls[c].pc = "insertCategory"
    /\ LET row == calls[c].category IN
       /\ ~(CategoryExists(row.user_id, row.name) /\ row.user_id = NULL) => nullSafeKey
       /\ IF CategoryInsertError(row, nullSafeKey) = NOSTR
          THEN /\ db' = [db EXCEPT !.categories = Put(@, db.cat_auto_inc, row),
                                   !.cat_auto_inc = @ + 1]
               /\ calls' = [Respond(c, "ok") EXCEPT ![c].insertId = db.cat_auto_inc]
          ELSE /\ db' = db
               /\ calls' = Respond(c, "StoreUnavailable")
    /\ UNCHANGED <<imports, faults, reads>>

(***************************************************************************)
(* POST /api/pay-periods (payPeriods.ts:46-110): the user, the INSERT ...  *)
(* ON DUPLICATE KEY UPDATE, and the SELECT of the id when the handler      *)
(* takes the statement to have updated.                                    *)
(*                                                                         *)
(* The note column holds NULL or a non-empty string, the handler storing   *)
(* `note || null`; NOSTR stands for NULL in the rows.                      *)
(***************************************************************************)
upsertPayPeriodSchema ==
    [ user_id : {1, 3}, pay_date : {"2024-01-01", "2024-01-15"},
      gross_income_cents : {0, 500}, note : {NOSTR, "bonus"} ]

\* the row of the key (user_id, pay_date), or NULL
PayPeriodOf(user_id, pay_date) ==
    LET ks == {k \in DOMAIN db.pay_periods :
                  /\ db.pay_periods[k].user_id = user_id
                  /\ db.pay_periods[k].pay_date = pay_date}
    IN  IF ks = {} THEN NULL ELSE CHOOSE k \in ks : TRUE

\* result.affectedRows of INSERT ... ON DUPLICATE KEY UPDATE: 1 for a row inserted,
\* 2 for a row updated, and for a row left with the values it had 1, the driver
\* connecting with CLIENT_FOUND_ROWS unless told otherwise (part_005:17-26 sets
\* no flags)
AffectedRows(existing, changed) == IF existing = NULL THEN 1 ELSE IF changed THEN 2 ELSE 1

\* result.insertId: the id of the row inserted or updated, 0 for a row left as
\* it was
InsertId(existing, changed) ==
    IF existing = NULL THEN db.pp_auto_inc ELSE IF changed THEN existing ELSE 0

\* payPeriods.ts:52-61
UpsertSelectUser(c, validatedData) ==
    /\ CanStart(c)
    /\ LET started == [calls[c] EXCEPT !.op = "upsertPayPeriod"] IN
       calls' = [calls EXCEPT ![c] =
          IF validatedData.user_id \notin Users
          THEN [started EXCEPT !.pc = "done", !.result = "NotFound"]
          ELSE [started EXCEPT !.pc = "upsert", !.payPeriod = validatedData]]
    /\ UNCHANGED <<db, imports, faults, reads>>

\* payPeriods.ts:63-87: the statement, wasInsert and the answer of an insert
UpsertInsert(c) ==
    /\ calls[c].op = "upsertPayPeriod" /\ calls[c].pc = "upsert"
    /\ LET row == calls[c].payPeriod
           existing == PayPeriodOf(row.user_id, row.pay_date)
           changed == existing # NULL /\ db.pay_periods[existing] # row
           affectedRows == AffectedRows(existing, changed)
           wasInsert == affectedRows = 1
       IN  /\ db' = IF existing = NULL
                    THEN [db EXCEPT !.pay_periods = Put(@, db.pp_auto_inc, row),
                                    !.pp_auto_inc = @ + 1]
                    ELSE [db EXCEPT !.pay_periods[existing].gross_income_cents =
                                        row.gross_income_cents,
                                    !.pay_periods[existing].note = row.note]
           /\ calls' =
                 IF wasInsert
                 THEN [Respond(c, "ok") EXCEPT ![c].insertId = InsertId(existing, changed),
                                               ![c].affectedRows = affectedRows,
                                               ![c].payPeriod = row]
                 ELSE [calls EXCEPT ![c].pc = "selectId",
                                    ![c].insertId = InsertId(existing, changed),
                                    ![c].affectedRows = affectedRows]
    /\ UNCHANGED <<imports, faults, reads>>

\* payPeriods.ts:88-99: SELECT id FROM pay_periods WHERE user_id = ? AND pay_date = ?
UpsertSelectId(c) ==
    /\ calls[c].op = "upsertPayPeriod" /\ calls[c].pc = "selectId"
    /\ LET row == calls[c].payPeriod
           existing == PayPeriodOf(row.user_id, row.pay_date)
       IN  calls' = [Respond(c, "ok") EXCEPT
                        ![c].insertId = Or(existing, calls[c].insertId),
                        ![c].affectedRows = calls[c].affectedRows,
                        ![c].payPeriod = row]
    /\ UNCHANGED <<db, imports, faults, reads>>

(***************************************************************************)
(* DELETE /api/savings/goals/:id (goals.ts:118-165): three statements.     *)
(***************************************************************************)
GoalIdInputs == 1..3

\* how the store may declare saving_entry_goals.goal_id
ForeignKeys == {"none", "restrict", "cascade"}

\* SELECT id FROM saving_goals WHERE id = ?
DeleteGoalSelect(c, goalId) ==
    /\ CanStart(c)
    /\ LET started == [calls[c] EXCEPT !.op = "deleteGoal", !.id = goalId] IN
       calls' = [calls EXCEPT ![c] =
          IF goalId \notin DOMAIN db.saving_goals
          THEN [started EXCEPT !.pc = "done", !.result = "NotFound"]
          ELSE [started EXCEPT !.pc = "selectLinks"]]
    /\ UNCHANGED <<db, imports, faults, reads>>

\* SELECT saving_entry_id FROM saving_entry_goals WHERE goal_id = ?
DeleteGoalSelectLinks(c) ==
    /\ calls[c].op = "deleteGoal" /\ calls[c].pc = "selectLinks"
    /\ calls' = IF \E l \in db.saving_entry_goals : l[2] = calls[c].id
                THEN Respond(c, "HasLinks")
                ELSE [calls EXCEPT ![c].pc = "deleteGoal"]
    /\ UNCHANGED <<db, imports, faults, reads>>

\* DELETE FROM saving_goals WHERE id = ?
\* The store's declaration of saving_entry_goals.goal_id decides what the DELETE
\* does to a goal that a link names: nothing declared, the DELETE refused, or the
\* links deleted with the goal.
DeleteGoalDelete(c, fk) ==
    /\ calls[c].op = "deleteGoal" /\ calls[c].pc = "deleteGoal"
    /\ LET goalId == calls[c].id
           linked == \E l \in db.saving_entry_goals : l[2] = goalId
       IN  /\ ~linked => fk = "none"
           /\ IF linked /\ fk = "restrict"
              THEN /\ db' = db
                   /\ calls' = Respond(c, "StoreUnavailable")
              ELSE /\ db' = [db EXCEPT
                         !.saving_goals = Remove(@, goalId),
                         !.saving_entry_goals =
                             IF fk = "cascade" THEN {l \in @ : l[2] # goalId} ELSE @]
                   /\ calls' = Respond(c, "ok")
    /\ UNCHANGED <<imports, faults, reads>>

(***************************************************************************)
(* POST /api/savings/entries/:entryId/assign-goal/:goalId (goals.ts:       *)
(* 168-238), statement by statement.                                       *)
(***************************************************************************)
\* SELECT id, user_id FROM saving_entries WHERE id = ?
AssignSelectEntry(c, entryId, goalId) ==
    /\ CanStart(c)
    /\ LET started == [calls[c] EXCEPT !.op = "assignGoal", !.id = entryId, !.goalId = goalId]
       IN  calls' = [calls EXCEPT ![c] =
              IF entryId \notin DOMAIN db.saving_entries
              THEN [started EXCEPT !.pc = "done", !.result = "NotFound"]
              ELSE [started EXCEPT !.pc = "selectGoal",
                                   !.entry = db.saving_entries[entryId].user_id]]
    /\ UNCHANGED <<db, imports, faults, reads>>

\* SELECT id FROM saving_goals WHERE id = ? AND user_id = ?
AssignSelectGoal(c) ==
    /\ calls[c].op = "assignGoal" /\ calls[c].pc = "selectGoal"
    /\ calls' = IF /\ calls[c].goalId \in DOMAIN db.saving_goals
                   /\ db.saving_goals[calls[c].goalId].user_id = calls[c].entry
                THEN [calls EXCEPT ![c].pc = "selectLink"]
                ELSE Respond(c, "NotFound")
    /\ UNCHANGED <<db, imports, faults, reads>>

\* SELECT saving_entry_id FROM saving_entry_goals WHERE saving_entry_id = ? AND
\* goal_id = ?
LinkExists(entryId, goalId) == <<entryId, goalId>> \in db.saving_entry_goals

\* goals.ts:210-221: 409 when the link is there
AssignSelectLink(c) ==
    /\ calls[c].op = "assignGoal" /\ calls[c].pc = "selectLink"
    /\ calls' = IF LinkExists(calls[c].id, calls[c].goalId)
                THEN Respond(c, "Conflict")
                ELSE [calls EXCEPT ![c].pc = "insertLink"]
    /\ UNCHANGED <<db, imports, faults, reads>>

\* What the store answers to the INSERT of a link: the pair is the key of the
\* table; a goal that is gone is refused where goal_id is declared a reference.
LinkInsertError(entryId, goalId, fk) ==
    IF <<entryId, goalId>> \in db.saving_entry_goals THEN "ER_DUP_ENTRY"
    ELSE IF goalId \notin DOMAIN db.saving_goals /\ fk # "none" THEN "ER_NO_REFERENCED_ROW"
    ELSE NOSTR

\* goals.ts:224-238: the INSERT; any error it raises is answered 500
AssignInsertLink(c, fk) ==
    /\ calls[c].op = "assignGoal" /\ calls[c].pc = "insertLink"
    /\ calls[c].goalId \in DOMAIN db.saving_goals => fk = "none"
    /\ IF LinkInsertError(calls[c].id, calls[c].goalId, fk) = NOSTR
       THEN /\ db' = [db EXCEPT !.saving_entry_goals =
                        @ \cup {<<calls[c].id, calls[c].goalId>>}]
            /\ calls' = Respond(c, "ok")
       ELSE /\ db' = db
            /\ calls' = Respond(c, "StoreUnavailable")
    /\ UNCHANGED <<imports, faults, reads>>

(***************************************************************************)
(* GET /api/savings/goals/user/:userId (goals.ts:17-55): one query.        *)
(***************************************************************************)
UserIdInputs == 1..3

\* a join that takes every saving entry of the goal's owner
LinkedEntries_Mut(goalId) ==
    {e \in DOMAIN db.saving_entries :
        db.saving_entries[e].user_id = db.saving_goals[goalId].user_id}

\* goals.ts:39-40: the saving entries joined to a goal through its links
LinkedEntries(goalId) ==
    {e \in DOMAIN db.saving_entries : <<e, goalId>> \in db.saving_entry_goals}

\* goals.ts:36: COALESCE(SUM(se.amount_cents), 0)
SavedCents(goalId) ==
    LET rows == LinkedEntries(goalId) IN
    SumOver([e \in rows |-> db.saving_entries[e].amount_cents], rows)

GoalProgress(userId) ==
    /\ CanRead
    /\ LET started == StartRead("goalProgress", userId)
           rows == {g \in DOMAIN db.saving_goals : db.saving_goals[g].user_id = userId}
       IN  reads' =
              [started EXCEPT !.pc = "done", !.result = "ok",
                 !.goals = [g \in rows |->
                     [ target_amount_cents |-> db.saving_goals[g].target_amount_cents,
                       saved_cents |-> SavedCents(g),
                       remaining_cents |->
                           db.saving_goals[g].target_amount_cents - SavedCents(g) ]]]
    /\ ReadOnly

(***************************************************************************)
(* GET /api/summary/savings/user/:userId (src/unnamed/part_001:109-171)    *)
(***************************************************************************)
EntriesOf(userId) ==
    {e \in DOMAIN db.saving_entries : db.saving_entries[e].user_id = userId}

\* the withdrawals summed with their sign
WithdrawnTotal_Mut(rows) == SumOver([e \in rows |-> db.saving_entries[e].amount_cents], rows)

\* part_001:121, 145: SUM of the positive amounts of rows
DepositedTotal(rows) ==
    LET pos == {e \in rows : db.saving_entries[e].amount_cents > 0} IN
    SumOver([e \in pos |-> db.saving_entries[e].amount_cents], pos)

\* part_001:131, 146: SUM(ABS(amount_cents)) of the negative amounts of rows
WithdrawnTotal(rows) ==
    LET neg == {e \in rows : db.saving_entries[e].amount_cents < 0} IN
    SumOver([e \in neg |-> Abs(db.saving_entries[e].amount_cents)], neg)

\* part_001:120-127
SavingsDeposits(userId) ==
    /\ CanRead
    /\ reads' = [StartRead("savingsSummary", userId) EXCEPT
                    !.pc = "withdrawals",
                    !.total_saved_cents = DepositedTotal(EntriesOf(userId))]
    /\ ReadOnly

\* part_001:130-140
SavingsWithdrawals ==
    /\ reads.op = "savingsSummary" /\ reads.pc = "withdrawals"
    /\ LET total_withdrawn_cents == WithdrawnTotal(EntriesOf(reads.id))
       IN  reads' = [reads EXCEPT !.pc = "breakdown",
                        !.total_withdrawn_cents = total_withdrawn_cents,
                        !.net_saved_cents = reads.total_saved_cents - total_withdrawn_cents]
    /\ ReadOnly

\* part_001:143-163: the breakdown, one group per account joined to an entry of the
\* user, and the answer
SavingsBreakdown ==
    /\ reads.op = "savingsSummary" /\ reads.pc = "breakdown"
    /\ LET rowsOf(a) == {e \in EntriesOf(reads.id) : db.saving_entries[e].account_id = a}
           accountsOf == {a \in DOMAIN db.accounts : rowsOf(a) # {}}
       IN  reads' = [reads EXCEPT !.pc = "done", !.result = "ok",
              !.data = [a \in accountsOf |->
                  [ account_type |-> db.accounts[a].type,
                    account_name |-> db.accounts[a].name,
                    deposits |-> DepositedTotal(rowsOf(a)),
                    withdrawals |-> WithdrawnTotal(rowsOf(a)),
                    net |-> SumOver([e \in rowsOf(a) |-> db.saving_entries[e].amount_cents],
                                    rowsOf(a)) ]]]
    /\ ReadOnly

(***************************************************************************)
(* GET /api/export/user/:userId (export.ts:24-126): the user, then one     *)
(* SELECT per table.                                                       *)
(***************************************************************************)
ExportTables ==
    << "accounts", "categories", "pay_periods", "transactions", "planned_payments",
       "saving_entries", "saving_goals", "saving_entry_goals" >>

\* export.ts:35-44
ExportSelectUser(userId) ==
    /\ CanRead
    /\ LET started == StartRead("export", userId) IN
       IF userId \notin Users
       THEN reads' = [started EXCEPT !.pc = "done", !.result = "NotFound"]
       ELSE reads' = [started EXCEPT !.pc = "accounts"]
    /\ ReadOnly

\* a filter that lets the global rows through as well
OwnedBy_Mut(row, userId) == row.user_id \in {userId, NULL}

\* export.ts:48-90: WHERE user_id = ?
OwnedBy(row, userId) == row.user_id = userId

\* export.ts:46-101: the rows one SELECT of the export returns
ExportedRows(t, userId) ==
    IF t = "saving_entry_goals"
    THEN {l \in db.saving_entry_goals :
             /\ l[1] \in DOMAIN db.saving_entries
             /\ db.saving_entries[l[1]].user_id = userId}
    ELSE {<<k, db[t][k]>> : k \in {x \in DOMAIN db[t] : OwnedBy(db[t][x], userId)}}

\* export.ts:46-118: the next SELECT; after the last one the request answers
ExportSelectTable ==
    /\ reads.op = "export"
    /\ \E n \in 1..Len(ExportTables) :
          /\ reads.pc = ExportTables[n]
          /\ reads' = [reads EXCEPT
                !.data = Put(@, ExportTables[n], ExportedRows(ExportTables[n], reads.id)),
                !.pc = IF n < Len(ExportTables) THEN ExportTables[n + 1] ELSE "done",
                !.result = IF n < Len(ExportTables) THEN "pending" ELSE "ok"]
    /\ ReadOnly

\* summary.ts:100-105 and the catch blocks of the other read-side handlers: a
\* query throws and the request answers 500
ReadQueryFails ==
    /\ reads.pc \notin {"idle", "done"}
    /\ faults < MaxFaults
    /\ faults' = faults + 1
    /\ reads' = [reads EXCEPT !.pc = "done", !.result = "StoreUnavailable"]
    /\ UNCHANGED <<db, calls, imports>>

Init ==
    /\ db = InitDb
    /\ calls = [c \in CallIds |-> IdleCall]
    /\ imports = [i \in ImportIds |-> IdleImport]
    /\ faults = 0
    /\ reads = IdleRead

(***************************************************************************)
(* Spec: the planned-payment requests, running concurrently.               *)
(***************************************************************************)
Next ==
    \/ \E c \in CallIds, id \in PlannedIdInputs, account_id \in {NULL, 1, 2} :
          ExecuteSelectPlanned(c, id, account_id)
    \/ \E c \in CallIds, category_id \in {NULL, 1, 3} : ExecuteSelectAccount(c, category_id)
    \/ \E c \in CallIds : ExecuteSelectCategory(c)
    \/ \E c \in CallIds, txn_date \in TxnDates, description \in Descriptions :
          ExecuteInsertTxn(c, txn_date, description)
    \/ \E c \in CallIds : ExecuteUpdatePlanned(c)
    \/ \E c \in CallIds, id \in PlannedIdInputs : CancelSelectPlanned(c, id)
    \/ \E c \in CallIds : CancelUpdatePlanned(c)
    \/ \E c \in CallIds : CallQueryFails(c)

Spec == Init /\ [][Next]_vars

(***************************************************************************)
(* SpecImport: import requests, one after the other.                       *)
(***************************************************************************)
NextImport ==
    \/ \E i \in ImportIds, dryRun \in BOOLEAN, data \in ImportBatches :
          ImportStart(i, dryRun, data)
    \/ \E i \in ImportIds : ImportInsert(i)
    \/ \E i \in ImportIds : ImportInsertFails(i)
    \/ \E i \in ImportIds, rejected \in BOOLEAN : ImportUpdate(i, rejected)
    \/ \E i \in ImportIds : ImportUpdateFails(i)

SpecImport == Init /\ [][NextImport]_vars

(***************************************************************************)
(* SpecMixed: transaction creation, one execute or cancel request and one  *)
(* import of transactions and planned payments, running concurrently.      *)
(***************************************************************************)
NextMixed ==
    \/ \E id \in PlannedIdInputs, account_id \in {NULL, 1, 2} :
          ExecuteSelectPlanned(1, id, account_id)
    \/ \E category_id \in {NULL, 1, 3} : ExecuteSelectAccount(1, category_id)
    \/ ExecuteSelectCategory(1)
    \/ \E txn_date \in TxnDates, description \in Descriptions :
          ExecuteInsertTxn(1, txn_date, description)
    \/ ExecuteUpdatePlanned(1)
    \/ \E id \in PlannedIdInputs : CancelSelectPlanned(1, id)
    \/ CancelUpdatePlanned(1)
    \/ \E validatedData \in createTransactionSchema : PostTransaction(validatedData)
    \/ \E dryRun \in BOOLEAN, data \in MixedBatches : ImportStart(1, dryRun, data)
    \/ ImportInsert(1)
    \/ \E rejected \in BOOLEAN : ImportUpdate(1, rejected)

SpecMixed == Init /\ [][NextMixed]_vars

(***************************************************************************)
(* SpecOwner: the three writers of transactions (creation, execute and     *)
(* the import), with accounts and pay periods of both users named.         *)
(***************************************************************************)
\* POST /api/transactions bodies naming either user's account and pay period
ownerTransactions ==
    [ user_id : {1}, pay_period_id : {NULL, 1, 2}, account_id : {1, 2},
      category_id : {NULL}, type : {"expense"}, amount_cents : {-120},
      description : {NOSTR}, txn_date : {"2024-01-05"},
      planned_payment_id : {NULL}, counterparty_user_id : {NULL} ]

\* a transactions record of user 1 on the account and pay period of user 2
ForeignTxnRecord ==
    <<MaxTxnId, 1, 2, 2, NULL, "expense", -120, NOSTR, "2024-01-05", NULL, NULL,
      "2024-01-05 00:00:00">>

OwnerBatches == { ("transactions" :> <<ForeignTxnRecord>>) }

NextOwner ==
    \/ \E id \in PlannedIdInputs, account_id \in {NULL, 1, 2} :
          ExecuteSelectPlanned(1, id, account_id)
    \/ \E category_id \in {NULL, 1, 3} : ExecuteSelectAccount(1, category_id)
    \/ ExecuteSelectCategory(1)
    \/ \E txn_date \in TxnDates, description \in Descriptions :
          ExecuteInsertTxn(1, txn_date, description)
    \/ ExecuteUpdatePlanned(1)
    \/ \E validatedData \in ownerTransactions : PostTransaction(validatedData)
    \/ \E data \in OwnerBatches : ImportStart(1, FALSE, data)
    \/ ImportInsert(1)

SpecOwner == Init /\ [][NextOwner]_vars

(***************************************************************************)
(* SpecSummary: pay-period summaries running concurrently with the         *)
(* writers of the rows they read.                                          *)
(***************************************************************************)
\* POST /api/transactions bodies that name a pay period
periodTransactions ==
    [ user_id : {1}, pay_period_id : {1, 2}, account_id : {1}, category_id : {NULL},
      type : {"income", "expense"}, amount_cents : {-120, 500},
      description : {NOSTR}, txn_date : {"2024-01-05"},
      planned_payment_id : {NULL}, counterparty_user_id : {NULL} ]

\* POST /api/savings/entries bodies that name a pay period
periodSavingEntries ==
    [ user_id : {1}, pay_period_id : {1}, account_id : {1}, amount_cents : {50, -20},
      entry_date : {"2024-01-05"} ]

\* a planned_payments record of an import whose amount is negative
OwedRecord ==
    <<MaxPlanned + 1, 1, 1, "refund", -30, "2024-01-10", 0, "planned", NULL,
      "2024-01-01 00:00:00">>

ReadBatches == { ("planned_payments" :> <<OwedRecord>>) }

NextSummary ==
    \/ \E id \in PayPeriodIdInputs : SummarySelectPayPeriod(id, "utc")
    \/ SummaryIncome
    \/ SummaryExpenses
    \/ SummarySavings
    \/ SummaryPlanned
    \/ \E validatedData \in periodTransactions : PostTransaction(validatedData)
    \/ \E validatedData \in periodSavingEntries : PostSavingEntry(validatedData)
    \/ \E data \in ReadBatches : ImportStart(1, FALSE, data)
    \/ ImportInsert(1)

SpecSummary == Init /\ [][NextSummary]_vars

(***************************************************************************)
(* SpecSavings: savings summaries running concurrently with the creation   *)
(* of saving entries on the accounts of two users, one of them imported.   *)
(***************************************************************************)
\* POST /api/savings/entries bodies of either user on any account
summarySavingEntries ==
    [ user_id : {1, 2}, pay_period_id : {NULL}, account_id : {1, 2, 3},
      amount_cents : {50, -20}, entry_date : {"2024-01-05"} ]

SavingsBatches == { ("accounts" :> <<AccountRecord(3)>>) }

NextSavings ==
    \/ \E userId \in UserIdInputs : SavingsDeposits(userId)
    \/ SavingsWithdrawals
    \/ SavingsBreakdown
    \/ \E validatedData \in summarySavingEntries : PostSavingEntry(validatedData)
    \/ \E data \in SavingsBatches : ImportStart(1, FALSE, data)
    \/ ImportInsert(1)

SpecSavings == Init /\ [][NextSavings]_vars

(***************************************************************************)
(* SpecReconcile: imports of transactions and planned payments, bodies     *)
(* that fail the schema included, with store failures.                     *)
(***************************************************************************)
NextReconcile ==
    \/ \E i \in ImportIds, body \in BodyShapes : ImportMalformed(i, body)
    \/ \E i \in ImportIds, dryRun \in BOOLEAN, data \in MixedBatches :
          ImportStart(i, dryRun, data)
    \/ \E i \in ImportIds : ImportInsert(i)
    \/ \E i \in ImportIds : ImportInsertFails(i)
    \/ \E i \in ImportIds, rejected \in BOOLEAN : ImportUpdate(i, rejected)
    \/ \E i \in ImportIds : ImportUpdateFails(i)

SpecReconcile == Init /\ [][NextReconcile]_vars

(***************************************************************************)
(* SpecLinks: assign-goal requests running concurrently on the entries of  *)
(* user 1, with links removed in between.                                  *)
(***************************************************************************)
NextLinks ==
    \/ \E validatedData \in {v \in periodSavingEntries : v.amount_cents > 0} :
          PostSavingEntry(validatedData)
    \/ \E c \in CallIds, entryId \in 1..(MaxSavingId + 1), goalId \in GoalIdInputs :
          AssignSelectEntry(c, entryId, goalId)
    \/ \E c \in CallIds : AssignSelectGoal(c)
    \/ \E c \in CallIds : AssignSelectLink(c)
    \/ \E c \in CallIds : AssignInsertLink(c, "none")
    \/ \E entryId \in 1..MaxSavingId, goalId \in DOMAIN InitGoals : UnassignGoal(entryId, goalId)

SpecLinks == Init /\ [][NextLinks]_vars

(***************************************************************************)
(* SpecGoalLinks: assign-goal and delete-goal requests running             *)
(* concurrently.                                                           *)
(***************************************************************************)
NextGoalLinks ==
    \/ \E validatedData \in {v \in periodSavingEntries : v.amount_cents > 0} :
          PostSavingEntry(validatedData)
    \/ \E c \in CallIds, entryId \in 1..MaxSavingId : AssignSelectEntry(c, entryId, 1)
    \/ \E c \in CallIds : AssignSelectGoal(c)
    \/ \E c \in CallIds : AssignSelectLink(c)
    \/ \E c \in CallIds, fk \in ForeignKeys : AssignInsertLink(c, fk)
    \/ \E c \in CallIds, goalId \in GoalIdInputs : DeleteGoalSelect(c, goalId)
    \/ \E c \in CallIds : DeleteGoalSelectLinks(c)
    \/ \E c \in CallIds, fk \in ForeignKeys : DeleteGoalDelete(c, fk)

SpecGoalLinks == Init /\ [][NextGoalLinks]_vars

(***************************************************************************)
(* SpecCategories: category creations running concurrently.                *)
(***************************************************************************)
NextCategories ==
    \/ \E c \in CallIds, validatedData \in createCategorySchema :
          CategorySelectUser(c, validatedData)
    \/ \E c \in CallIds : CategorySelectExisting(c)
    \/ \E c \in CallIds, nullSafeKey \in BOOLEAN : CategoryInsert(c, nullSafeKey)

SpecCategories == Init /\ [][NextCategories]_vars

(***************************************************************************)
(* SpecPayPeriods: upserts of pay periods running concurrently.            *)
(***************************************************************************)
NextPayPeriods ==
    \/ \E c \in CallIds, validatedData \in upsertPayPeriodSchema :
          UpsertSelectUser(c, validatedData)
    \/ \E c \in CallIds : UpsertInsert(c)
    \/ \E c \in CallIds : UpsertSelectId(c)

SpecPayPeriods == Init /\ [][NextPayPeriods]_vars

(***************************************************************************)
(* SpecLinked: an execute and a cancel request, with transactions created  *)
(* and deleted through /api/transactions.                                  *)
(***************************************************************************)
\* POST /api/transactions bodies that may name a planned payment
linkedTransactions ==
    [ user_id : {1}, pay_period_id : {NULL}, account_id : {1}, category_id : {NULL},
      type : {"expense"}, amount_cents : {-120}, description : {NOSTR},
      txn_date : {"2024-01-05"}, planned_payment_id : {NULL, 1},
      counterparty_user_id : {NULL} ]

NextLinked ==
    \/ \E id \in PlannedIdInputs, account_id \in {NULL, 1} :
          ExecuteSelectPlanned(1, id, account_id)
    \/ \E category_id \in {NULL, 1, 3} : ExecuteSelectAccount(1, category_id)
    \/ ExecuteSelectCategory(1)
    \/ \E txn_date \in TxnDates, description \in Descriptions :
          ExecuteInsertTxn(1, txn_date, description)
    \/ ExecuteUpdatePlanned(1)
    \/ \E id \in PlannedIdInputs : CancelSelectPlanned(2, id)
    \/ CancelUpdatePlanned(2)
    \/ \E validatedData \in linkedTransactions : PostTransaction(validatedData)
    \/ \E c \in CallIds, transactionId \in TxnIdInputs : DeleteTxnSelect(c, transactionId)
    \/ \E c \in CallIds, fk \in LinkedTxnKeys : DeleteTxnDelete(c, fk)

SpecLinked == Init /\ [][NextLinked]_vars

(***************************************************************************)
(* SpecGoals: the import of saving goals running concurrently with the     *)
(* deletion of goals and the linking of entries to goals.                  *)
(***************************************************************************)
\* goal 1 as GET /api/export delivers it
GoalRecord == <<1, 1, "Car", 40, "2030-01-01", "2024-01-01 00:00:00">>

\* a goal the store does not hold
NewGoalRecord == <<3, 1, "Bike", 2, "2030-01-01", "2024-01-01 00:00:00">>

\* batches naming saving_goals alone, or with planned_payments, one of the two
\* given as an empty list
GoalBatches ==
    { ("saving_goals" :> <<GoalRecord>>),
      ("saving_goals" :> <<NewGoalRecord, GoalRecord>>),
      ("planned_payments" :> <<>>) @@ ("saving_goals" :> <<NewGoalRecord>>),
      ("planned_payments" :> <<PlannedRecord(1, 1, "planned", NULL)>>)
         @@ ("saving_goals" :> <<>>) }

NextGoals ==
    \/ \E data \in GoalBatches : ImportStart(1, FALSE, data)
    \/ ImportInsert(1)
    \/ \E rejected \in BOOLEAN : ImportUpdate(1, rejected)
    \/ \E goalId \in GoalIdInputs : DeleteGoalSelect(1, goalId)
    \/ DeleteGoalSelectLinks(1)
    \/ \E fk \in ForeignKeys : DeleteGoalDelete(1, fk)
    \/ \E validatedData \in {v \in periodSavingEntries : v.amount_cents > 0} :
          PostSavingEntry(validatedData)
    \/ \E entryId \in 1..MaxSavingId : AssignGoal(entryId, 1)

SpecGoals == Init /\ [][NextGoals]_vars

(***************************************************************************)
(* SpecRead: the four read-side requests running concurrently with the     *)
(* writers of saving entries, goal links and transactions.                 *)
(***************************************************************************)
NextRead ==
    \/ \E id \in PayPeriodIdInputs : SummarySelectPayPeriod(id, "utc")
    \/ SummaryIncome
    \/ SummaryExpenses
    \/ SummarySavings
    \/ SummaryPlanned
    \/ \E userId \in UserIdInputs : GoalProgress(userId)
    \/ \E userId \in UserIdInputs : SavingsDeposits(userId)
    \/ SavingsWithdrawals
    \/ SavingsBreakdown
    \/ \E userId \in UserIdInputs : ExportSelectUser(userId)
    \/ ExportSelectTable
    \/ ReadQueryFails
    \/ \E validatedData \in {v \in periodTransactions : v.type = "income"} :
          PostTransaction(validatedData)
    \/ \E validatedData \in periodSavingEntries : PostSavingEntry(validatedData)
    \/ \E entryId \in 1..MaxSavingId, goalId \in DOMAIN InitGoals : AssignGoal(entryId, goalId)
    \/ \E entryId \in 1..MaxSavingId, goalId \in DOMAIN InitGoals : UnassignGoal(entryId, goalId)

SpecRead == Init /\ [][NextRead]_vars

(***************************************************************************)
(* Properties.                                                             *)
(***************************************************************************)
Planned == db.planned_payments
Transactions == db.transactions

ExecutesOn(p) == {c \in CallIds : calls[c].op = "execute" /\ calls[c].id = p}

\* C1: two execute requests on the same planned payment never both succeed, and
\* together they create at most one transaction (stated for runs without a store
\* failure; the claim asks for exactly one success and InvalidState for the other).
C1_ExecuteAtMostOnce ==
    faults = 0 =>
       \A p \in DOMAIN Planned :
          /\ Cardinality({c \in ExecutesOn(p) : calls[c].result = "ok"}) <= 1
          /\ Cardinality({calls[c].insertId : c \in {d \in ExecutesOn(p) : calls[d].insertId # NULL}}) <= 1

\* C2: executed and canceled are terminal: no step changes the status of a planned
\* payment that is executed or canceled.
C2_TerminalStatus ==
    [][\A p \in DOMAIN Planned :
          Planned[p].status \in {"executed", "canceled"}
             => db'.planned_payments[p].status = Planned[p].status]_vars

\* C3: an execute or cancel request that finds the payment in a status other than
\* planned answers InvalidState at once and changes nothing in the store; it has
\* created no transaction.
C3_NotPlannedRejected ==
    [][\A c \in CallIds :
          ( /\ calls[c].pc = "idle"
            /\ calls'[c].pc # "idle"
            /\ calls'[c].id \in DOMAIN Planned
            /\ Planned[calls'[c].id].status # "planned" )
          => ( /\ calls'[c].pc = "done"
               /\ calls'[c].result = "InvalidState"
               /\ calls'[c].insertId = NULL
               /\ db' = db )]_vars

C3_Witness ==
    \E c \in CallIds : calls[c].op \in {"execute", "cancel"} /\ calls[c].result = "InvalidState"

\* C4: execute is all-or-nothing: once an execute request has answered, a
\* transaction it inserted is the linked transaction of the executed payment.
C4_ExecuteAllOrNothing ==
    \A c \in CallIds :
       (calls[c].op = "execute" /\ calls[c].pc = "done" /\ calls[c].insertId # NULL)
       => /\ Planned[calls[c].id].status = "executed"
          /\ Planned[calls[c].id].linked_txn_id = calls[c].insertId

\* C5: the INSERT of execute adds exactly one transaction: an expense of minus the
\* magnitude of the payment's amount, dated as the request asks, owned by the
\* payment's owner and pointing back to the payment; the request answers success
\* only from its UPDATE, which leaves the payment executed and linked to that
\* transaction, and the answer carries the transaction's id.
C5_ExecuteEffect ==
    [][\A c \in CallIds :
          LET p == calls[c].id IN
          /\ (calls[c].pc = "insertTxn" /\ calls'[c].pc = "updatePlanned")
             => LET new == calls'[c].insertId IN
                /\ new \notin DOMAIN Transactions
                /\ DOMAIN db'.transactions = DOMAIN Transactions \cup {new}
                /\ \A t \in DOMAIN Transactions : db'.transactions[t] = Transactions[t]
                /\ db'.transactions[new].type = "expense"
                /\ db'.transactions[new].amount_cents = -Abs(Planned[p].amount_cents)
                /\ db'.transactions[new].txn_date = calls'[c].validatedData.txn_date
                /\ db'.transactions[new].txn_date \in TxnDates
                /\ db'.transactions[new].user_id = Planned[p].user_id
                /\ db'.transactions[new].planned_payment_id = p
          /\ (calls[c].op = "execute" /\ calls[c].result = "pending" /\ calls'[c].result = "ok")
             => /\ calls[c].pc = "updatePlanned"
                /\ db'.planned_payments[p].status = "executed"
                /\ db'.planned_payments[p].linked_txn_id = calls[c].insertId
                /\ calls'[c].txn_id = calls[c].insertId
                /\ calls[c].insertId \in DOMAIN db'.transactions
                /\ db'.transactions = Transactions]_vars

C5_Witness ==
    \E c \in CallIds :
       /\ calls[c].op = "execute" /\ calls[c].result = "ok"
       /\ Planned[calls[c].id].linked_txn_id = calls[c].txn_id
       /\ Transactions[calls[c].txn_id].amount_cents < 0

\* C6: every stored transaction has a positive amount if it is an income or an
\* adjustment and a negative amount if it is an expense or a transfer.
C6_SignInvariant ==
    \A t \in DOMAIN Transactions :
       /\ Transactions[t].type \in {"income", "adjustment"} => Transactions[t].amount_cents > 0
       /\ Transactions[t].type \in {"expense", "transfer"} => Transactions[t].amount_cents < 0
       /\ Transactions[t].amount_cents # 0

CountsSum(counts) == counts.inserted + counts.updated + counts.skipped

\* C7: a step of a dry-run import leaves every table as it is, and the request
\* answers with counts that, for every table given, sum to the number of records
\* given for it.
C7_DryRunNoEffect ==
    [][\A i \in ImportIds :
          (imports'[i] # imports[i] /\ imports'[i].dryRun)
          => /\ db' = db
             /\ imports'[i].pc = "done"
             /\ imports'[i].result = "ok"
             /\ DOMAIN imports'[i].details = DOMAIN imports'[i].data
             /\ \A t \in DOMAIN imports'[i].data :
                   CountsSum(imports'[i].details[t]) = Len(imports'[i].data[t])]_vars

C7_Witness ==
    \E i \in ImportIds :
       /\ imports[i].dryRun /\ imports[i].pc = "done"
       /\ "transactions" \in DOMAIN imports[i].data
       /\ imports[i].details["transactions"].inserted = 2
       /\ db = imports[i].before

RecordIds(list) == {list[k][1] : k \in 1..Len(list)}

\* C8: the same batch of records with distinct new identifiers, imported twice in
\* a row without dry-run and without a store failure, is reported as N inserted
\* the first time and N updated the second, and the table then holds a row for
\* each identifier (accounts and planned_payments have an update).
C8_ReapplyIdempotent ==
    \A i \in ImportIds, t \in {"accounts", "planned_payments"} :
       LET j == i + 1 IN
       ( /\ j \in ImportIds
         /\ imports[i].pc = "done" /\ imports[j].pc = "done"
         /\ ~imports[i].dryRun /\ ~imports[j].dryRun
         /\ ~imports[i].faulted /\ ~imports[j].faulted
         /\ imports[i].data = imports[j].data
         /\ t \in DOMAIN imports[i].data
         /\ Cardinality(RecordIds(imports[i].data[t])) = Len(imports[i].data[t])
         /\ RecordIds(imports[i].data[t]) \cap DOMAIN imports[i].before[t] = {} )
       => LET n == Len(imports[i].data[t]) IN
          /\ imports[i].result = "ok"
          /\ imports[i].details[t] = [inserted |-> n, updated |-> 0, skipped |-> 0]
          /\ imports[j].result = "ok"
          /\ imports[j].details[t] = [inserted |-> 0, updated |-> n, skipped |-> 0]
          /\ RecordIds(imports[i].data[t]) \subseteq DOMAIN db[t]

\* C9: a non-dry-run import always answers with counts, having attempted every
\* record of every table given.
C9_FailureNeverStopsBatch ==
    \A i \in ImportIds :
       (imports[i].pc = "done" /\ ~imports[i].dryRun)
       => /\ imports[i].result = "ok"
          /\ imports[i].attempted = SumLen(imports[i].data, DOMAIN imports[i].data)

TotalInserted(st) == st.inserted + st.local.inserted
TotalUpdated(st) == st.updated + st.local.updated
TotalSkipped(st) == st.skipped + st.local.skipped

\* C10: in a non-dry-run import, the insert of a transactions record whose id is
\* already stored counts the record as skipped and leaves the store as it is, and
\* on every table an insert that fails for a reason other than a duplicate key
\* counts the record as skipped and leaves the store as it is.
C10_FailedInsertSkipped ==
    [][\A i \in ImportIds :
          LET st == imports[i]
              attempt == st.pc = "insert" /\ imports'[i].attempted = st.attempted + 1
              skippedOne == /\ TotalSkipped(imports'[i]) = TotalSkipped(st) + 1
                            /\ TotalInserted(imports'[i]) = TotalInserted(st)
                            /\ TotalUpdated(imports'[i]) = TotalUpdated(st)
                            /\ imports'[i].pc # "update"
                            /\ db' = db
          IN  /\ ( /\ attempt
                   /\ Table(st) = "transactions"
                   /\ Len(Record(st)) >= 1
                   /\ Record(st)[1] \in DOMAIN Transactions ) => skippedOne
              /\ (attempt /\ imports'[i].lastError \notin {NOSTR, "ER_DUP_ENTRY"})
                    => skippedOne]_vars

C10_Witness ==
    \E i \in ImportIds :
       /\ imports[i].pc = "done" /\ ~imports[i].dryRun /\ ~imports[i].faulted
       /\ DOMAIN imports[i].data = {"transactions"}
       /\ imports[i].lastError = "ER_DUP_ENTRY"
       /\ imports[i].details["transactions"].skipped >= 1
       /\ db = imports[i].before

\* The rows a pay-period summary is about: the transactions and saving entries of
\* the pay period, and the owner's planned payments still planned and due in
\* [pay_date, pay_date + 14 days).
PeriodTxns(p, types) ==
    {t \in DOMAIN Transactions :
        Transactions[t].pay_period_id = p /\ Transactions[t].type \in types}
PeriodEntries(p) ==
    {e \in DOMAIN db.saving_entries : db.saving_entries[e].pay_period_id = p}
PeriodPlanned(p) ==
    {q \in DOMAIN Planned :
        /\ Planned[q].user_id = db.pay_periods[p].user_id
        /\ Planned[q].status = "planned"
        /\ DayNumber[Planned[q].due_date] - DayNumber[db.pay_periods[p].pay_date] \in 0..13}
Answers(op) == reads.op = op /\ reads.pc # "done" /\ reads'.pc = "done" /\ reads'.result = "ok"

\* C11: each query of a pay-period summary gives the sum the claim names over the
\* store at that moment: income_in the positive amounts of the period's income and
\* adjustment transactions, expenses_out the magnitudes of the negative amounts of
\* its expense and transfer transactions, savings_out the signed sum of its saving
\* entries, reserved_planned the sum of the magnitudes of the owner's planned
\* payments due in the window, and leftover their combination.
C11_PeriodSummary ==
    [][reads.op = "periodSummary" =>
        LET p == reads.id IN
        /\ (reads.pc = "income" /\ reads'.pc = "expenses")
              => LET rows == {t \in PeriodTxns(p, {"income", "adjustment"}) :
                                 Transactions[t].amount_cents > 0}
                 IN reads'.income_in_cents =
                       SumOver([t \in rows |-> Transactions[t].amount_cents], rows)
        /\ (reads.pc = "expenses" /\ reads'.pc = "savings")
              => LET rows == {t \in PeriodTxns(p, {"expense", "transfer"}) :
                                 Transactions[t].amount_cents < 0}
                 IN reads'.expenses_out_cents =
                       SumOver([t \in rows |-> Abs(Transactions[t].amount_cents)], rows)
        /\ (reads.pc = "savings" /\ reads'.pc = "planned")
              => reads'.savings_out_cents =
                    SumOver([e \in PeriodEntries(p) |-> db.saving_entries[e].amount_cents],
                            PeriodEntries(p))
        /\ Answers("periodSummary")
              => /\ reads'.reserved_planned_cents =
                       SumOver([q \in PeriodPlanned(p) |-> Abs(Planned[q].amount_cents)],
                               PeriodPlanned(p))
                 /\ reads'.leftover_cents =
                       reads'.income_in_cents - reads'.expenses_out_cents
                       - reads'.savings_out_cents - reads'.reserved_planned_cents]_vars

\* C12: a pay-period summary of a pay period with no transaction, no saving entry
\* and no planned payment of the owner due in its window answers zero in all five
\* fields (no step removes a transaction or a saving entry, so the period was as
\* empty at each of the request's queries); a summary of an id that is not a pay
\* period answers NotFound.
C12_EmptyPeriodZero ==
    [][/\ ( /\ Answers("periodSummary")
            /\ PeriodTxns(reads.id, transactionTypeEnum) = {}
            /\ PeriodEntries(reads.id) = {}
            /\ PeriodPlanned(reads.id) = {} )
          => /\ reads'.income_in_cents = 0 /\ reads'.expenses_out_cents = 0
             /\ reads'.savings_out_cents = 0 /\ reads'.reserved_planned_cents = 0
             /\ reads'.leftover_cents = 0
       /\ ( /\ reads'.op = "periodSummary" /\ reads' # reads
            /\ reads'.id \notin DOMAIN db.pay_periods )
          => reads'.pc = "done" /\ reads'.result = "NotFound"]_vars


LinkedTo(g) == {e \in DOMAIN db.saving_entries : <<e, g>> \in db.saving_entry_goals}

\* the step that removes the link of entry e to goal g lowers the saved amount the
\* progress query computes for g by the amount of e
UnlinkExcludes ==
    \A l \in db.saving_entry_goals :
       l \notin db'.saving_entry_goals
          => SavedCents(l[2])' = SavedCents(l[2]) - db.saving_entries[l[1]].amount_cents

\* C13: a goal-progress request answers with exactly the goals of the owner asked
\* for, each with saved equal to the signed sum of the saving entries linked to the
\* goal at that moment (0 with no link) and remaining = target - saved, which may
\* be negative; an entry whose link is removed no longer counts.
C13_GoalProgress ==
    [][/\ UnlinkExcludes
       /\ (reads'.op = "goalProgress" /\ reads' # reads)
           => /\ reads'.pc = "done" /\ reads'.result = "ok"
              /\ DOMAIN reads'.goals =
                    {g \in DOMAIN db.saving_goals : db.saving_goals[g].user_id = reads'.id}
              /\ \A g \in DOMAIN reads'.goals :
                    /\ reads'.goals[g].saved_cents =
                          SumOver([e \in LinkedTo(g) |-> db.saving_entries[e].amount_cents],
                                  LinkedTo(g))
                    /\ reads'.goals[g].remaining_cents =
                          db.saving_goals[g].target_amount_cents
                          - reads'.goals[g].saved_cents]_vars

\* two entries stored, one of them linked to goal 1: saved is that entry's amount
\* alone, and the deposit of 50 overshoots the target of 40
C13_Witness ==
    /\ reads.op = "goalProgress" /\ reads.pc = "done" /\ reads.id = 1
    /\ DOMAIN db.saving_entries = {1, 2}
    /\ db.saving_entry_goals = {<<1, 1>>}
    /\ db.saving_entries[1].amount_cents = 50 /\ db.saving_entries[2].amount_cents = -20
    /\ reads.goals[1].saved_cents = 50 /\ reads.goals[1].remaining_cents = -10

\* the rows of table t owned by userId, as <<id, row>>; for the links, the links of
\* the saving entries owned by userId
RowsOwnedBy(t, userId) ==
    IF t = "saving_entry_goals"
    THEN {l \in db.saving_entry_goals :
             \E e \in DOMAIN db.saving_entries :
                e = l[1] /\ db.saving_entries[e].user_id = userId}
    ELSE {<<k, db[t][k]>> : k \in {x \in DOMAIN db[t] : db[t][x].user_id = userId}}

\* C14: each SELECT of an export returns exactly the rows of its table that the
\* owner asked for owns at that moment (for the links: the links of that owner's
\* saving entries); the answer carries all eight tables and no row of another
\* owner; an export for a user that does not exist answers NotFound.
C14_ExportOwnRows ==
    [][reads'.op = "export" /\ reads' # reads
        => /\ \A t \in DOMAIN reads'.data \ DOMAIN reads.data :
                 reads.op = "export" => reads'.data[t] = RowsOwnedBy(t, reads.id)
           /\ reads'.result = "ok"
                 => /\ DOMAIN reads'.data = {ExportTables[n] : n \in 1..Len(ExportTables)}
                    /\ \A t \in DOMAIN reads'.data \ {"saving_entry_goals"} :
                          \A x \in reads'.data[t] : x[2].user_id = reads.id
                    /\ \A l \in reads'.data["saving_entry_goals"] :
                          db.saving_entries[l[1]].user_id = reads.id
           /\ reads'.id \notin Users => reads'.result = "NotFound"]_vars

C14_Witness ==
    /\ reads.op = "export" /\ reads.pc = "done" /\ reads.result = "ok" /\ reads.id = 1
    /\ reads.data["accounts"] = {<<1, db.accounts[1]>>}
    /\ reads.data["categories"] = {<<2, db.categories[2]>>}
    /\ reads.data["transactions"] # {}
    /\ reads.data["saving_entries"] # {}
    /\ reads.data["saving_entry_goals"] # {}
    /\ \E a \in DOMAIN db.accounts : db.accounts[a].user_id = 2

\* C15: a step of a pay-period summary, a savings summary, a goal-progress request
\* or an export leaves every table of the store as it is.
C15_ReadsChangeNothing ==
    [][reads' # reads => db' = db]_vars

\* a savings summary has answered on a store that holds entries and links
C15_Witness ==
    /\ reads.op = "savingsSummary" /\ reads.pc = "done" /\ reads.result = "ok"
    /\ reads.total_saved_cents = 50 /\ reads.total_withdrawn_cents = 20
    /\ reads.net_saved_cents = 30
    /\ db.saving_entry_goals # {}

\* C16: the step in which a cancel request answers success sets the status of its
\* payment to canceled and changes nothing else: no other field of the payment, no
\* other payment, no transaction, no row of another table.
C16_CancelOnlyStatus ==
    [][\A c \in CallIds :
          (calls[c].op = "cancel" /\ calls[c].result = "pending" /\ calls'[c].result = "ok")
          => LET p == calls[c].id IN
             /\ db'.planned_payments[p].status = "canceled"
             /\ \A f \in DOMAIN Planned[p] \ {"status"} :
                   db'.planned_payments[p][f] = Planned[p][f]
             /\ \A q \in DOMAIN Planned \ {p} : db'.planned_payments[q] = Planned[q]
             /\ DOMAIN db'.planned_payments = DOMAIN Planned
             /\ \A t \in DOMAIN db \ {"planned_payments"} : db'[t] = db[t]]_vars

C16_Witness ==
    \E c \in CallIds :
       /\ calls[c].op = "cancel" /\ calls[c].result = "ok" /\ calls[c].id = 1
       /\ Planned[1] = [PostedPlanned(1) EXCEPT !.status = "canceled"]
       /\ Planned[1].account_id = 1

\* C17: an execute request answers NotFound when its payment does not exist,
\* MissingAccount exactly when its payment is planned and neither the request nor
\* the payment names an account, NotFound when the account it resolved is not an
\* account of the payment's owner, and NotFound when the category it names does
\* not exist; the step that gives one of these answers changes nothing in the
\* store, and the request has inserted no transaction.
C17_ExecuteErrors ==
    [][\A c \in CallIds :
          LET starts == calls[c].pc = "idle" /\ calls'[c].op = "execute"
              p == calls'[c].id
              fails == /\ calls'[c].op = "execute"
                       /\ calls[c].result = "pending"
                       /\ calls'[c].result \in {"NotFound", "MissingAccount"}
          IN  /\ fails => (db' = db /\ calls'[c].insertId = NULL /\ calls'[c].pc = "done")
              /\ (starts /\ p \notin DOMAIN Planned) => calls'[c].result = "NotFound"
              /\ (starts /\ p \in DOMAIN Planned /\ Planned[p].status = "planned")
                    => ( calls'[c].result = "MissingAccount"
                         <=> ( /\ calls'[c].validatedData.account_id = NULL
                               /\ Planned[p].account_id = NULL ) )
              /\ ( /\ calls[c].op = "execute" /\ calls[c].pc = "selectAccount"
                   /\ calls'[c] # calls[c]
                   /\ ~ ( /\ calls[c].accountId \in DOMAIN db.accounts
                          /\ db.accounts[calls[c].accountId].user_id = Planned[p].user_id ) )
                    => calls'[c].result \in {"NotFound", "StoreUnavailable"}
              /\ ( /\ calls[c].op = "execute" /\ calls[c].pc = "selectCategory"
                   /\ calls'[c] # calls[c]
                   /\ calls[c].validatedData.category_id \notin DOMAIN db.categories )
                    => calls'[c].result \in {"NotFound", "StoreUnavailable"}]_vars

C17_Witness ==
    \E c, d \in CallIds :
       /\ calls[c].op = "execute" /\ calls[c].pc = "done" /\ calls[c].result = "NotFound"
       /\ calls[c].id \in DOMAIN Planned /\ calls[c].insertId = NULL
       /\ calls[d].op = "execute" /\ calls[d].result = "MissingAccount"
       /\ \A p \in DOMAIN Planned : Planned[p] = PostedPlanned(p)
       /\ db.transactions = InitDb.transactions

\* C18: the account of every stored transaction, and its pay period when it has
\* one, is a row of the transaction's owner.
C18_TxnOwnership ==
    \A t \in DOMAIN Transactions :
       /\ Transactions[t].account_id \in DOMAIN db.accounts
       /\ db.accounts[Transactions[t].account_id].user_id = Transactions[t].user_id
       /\ Transactions[t].pay_period_id # NULL =>
             /\ Transactions[t].pay_period_id \in DOMAIN db.pay_periods
             /\ db.pay_periods[Transactions[t].pay_period_id].user_id = Transactions[t].user_id

\* C19: when an import counts a record as updated, a row with the record's id is
\* in the table at the moment of the UPDATE and is the row the UPDATE applies to.
C19_UpdateHitsRow ==
    [][\A i \in ImportIds :
          ( /\ imports[i].pc = "update"
            /\ imports'[i] # imports[i]
            /\ imports'[i].result # "StoreUnavailable" )
          => LET t == Table(imports[i])
                 values == Record(imports[i])
             IN  /\ values[1] \in DOMAIN db[t]
                 /\ UpdateWhereId(t, values) = values[1]]_vars

\* the tables for which the batch of import i supplies no record
NotSupplied(i) ==
    {t \in {ExportTables[n] : n \in DOMAIN ExportTables} :
        t \notin DOMAIN imports[i].data \/ Len(imports[i].data[t]) = 0}

\* C20: a step of an import changes no row of a table that its batch does not
\* name or names with an empty list, and when the import answers, its report
\* counts nothing for such a table: no entry for a table not named, an entry of
\* zeros for a table named with an empty list.
C20_UnsuppliedUntouched ==
    [][\A i \in ImportIds :
          (imports[i].pc \in {"insert", "update"} /\ imports'[i] # imports[i])
          => /\ \A t \in NotSupplied(i) : db'[t] = db[t]
             /\ imports'[i].data = imports[i].data
             /\ (imports'[i].pc = "done" /\ imports'[i].result = "ok") =>
                   \A t \in NotSupplied(i) :
                      /\ t \notin DOMAIN imports[i].data => t \notin DOMAIN imports'[i].details
                      /\ t \in DOMAIN imports[i].data => imports'[i].details[t] = ZeroCounts]_vars

C20_Witness ==
    \E i \in ImportIds :
       /\ imports[i].pc = "done" /\ imports[i].result = "ok"
       /\ "planned_payments" \in DOMAIN imports[i].data
       /\ imports[i].data["planned_payments"] = <<>>
       /\ imports[i].details["planned_payments"] = ZeroCounts
       /\ "accounts" \notin DOMAIN imports[i].details
       /\ imports[i].inserted = 1
       /\ 3 \in DOMAIN db.saving_goals
       /\ db.planned_payments = InitDb.planned_payments /\ db.accounts = InitDb.accounts

\* the signed sum of the amounts of the saving entries rows
SignedTotal(rows) == SumOver([e \in rows |-> db.saving_entries[e].amount_cents], rows)

\* C21: each statement of a savings summary reports what the store holds when it
\* runs: the deposits are the sum of the owner's positive amounts, the withdrawals
\* the sum of the absolute values of the owner's negative amounts, net is deposits
\* minus withdrawals and, when the deposits read are those the store still holds,
\* the signed sum of the owner's amounts; each group of the breakdown is an account
\* holding an entry of the owner and reports the same three values over the
\* owner's entries on that account.
C21_SavingsSummary ==
    [][(reads'.op = "savingsSummary" /\ reads' # reads) =>
          LET userId == reads'.id
              own == EntriesOf(userId)
              pos == {e \in own : db.saving_entries[e].amount_cents > 0}
              neg == own \ pos
              onAccount(a) == {e \in own : db.saving_entries[e].account_id = a}
          IN  /\ reads'.pc = "withdrawals" => reads'.total_saved_cents = SignedTotal(pos)
              /\ reads'.pc = "breakdown" =>
                    /\ reads'.total_withdrawn_cents = -SignedTotal(neg)
                    /\ reads'.net_saved_cents =
                          reads'.total_saved_cents - reads'.total_withdrawn_cents
                    /\ reads.total_saved_cents = SignedTotal(pos)
                          => reads'.net_saved_cents = SignedTotal(own)
              /\ (reads'.pc = "done" /\ reads'.result = "ok") =>
                    /\ DOMAIN reads'.data = {db.saving_entries[e].account_id : e \in own}
                    /\ \A a \in DOMAIN reads'.data :
                          LET g == reads'.data[a]
                              gpos == onAccount(a) \cap pos
                          IN  /\ g.deposits = SignedTotal(gpos)
                              /\ g.withdrawals = -SignedTotal(onAccount(a) \ gpos)
                              /\ g.net = g.deposits - g.withdrawals
                              /\ g.net = SignedTotal(onAccount(a))
                              /\ g.account_type = db.accounts[a].type
                              /\ g.account_name = db.accounts[a].name]_vars

C21_Witness ==
    /\ reads.op = "savingsSummary" /\ reads.pc = "done" /\ reads.result = "ok"
    /\ reads.id = 1
    /\ reads.total_saved_cents = 50 /\ reads.total_withdrawn_cents = 20
    /\ reads.net_saved_cents = 30
    /\ DOMAIN reads.data = {1, 3}
    /\ reads.data[1].net = 50 /\ reads.data[3].withdrawals = 20 /\ reads.data[3].net = -20

\* C22: an import whose body fails the schema answers InvalidInput in the step
\* that receives it, with no record attempted, no counts and the store as it was;
\* an import whose body fits the schema never answers NotFound or Conflict: it is
\* in progress, or has answered its counts, or has answered that the store failed,
\* and a record whose INSERT hit a duplicate key is counted as updated or skipped.
C22_MalformedRejected ==
    [][\A i \in ImportIds :
          /\ (imports'[i].malformed /\ ~imports[i].malformed) =>
                /\ db' = db
                /\ imports[i].pc = "idle"
                /\ imports'[i].pc = "done" /\ imports'[i].result = "InvalidInput"
                /\ imports'[i].attempted = 0 /\ imports'[i].details = <<>>
          /\ ~imports'[i].malformed =>
                imports'[i].result \in {"pending", "ok", "StoreUnavailable"}
          /\ ( /\ imports[i].pc = "insert" /\ imports'[i] # imports[i]
               /\ imports'[i].lastError = "ER_DUP_ENTRY" /\ imports'[i].pc # "update" ) =>
                /\ imports'[i].result \in {"pending", "ok"}
                /\ db' = db
                /\ IF imports'[i].pc = "done" \/ imports'[i].table # imports[i].table
                   THEN imports'[i].skipped = imports[i].skipped + imports[i].local.skipped + 1
                   ELSE imports'[i].local.skipped = imports[i].local.skipped + 1]_vars

C22_Witness ==
    \E i, j \in ImportIds :
       /\ imports[i].malformed /\ imports[i].result = "InvalidInput"
       /\ ~imports[j].malformed /\ imports[j].result = "ok"
       /\ imports[j].skipped > 0 /\ imports[j].updated > 0
       /\ imports[j].lastError = "ER_DUP_ENTRY"

\* C23: the step in which an assign-goal request answers, for a pair that is
\* linked when it answers, answers Conflict and leaves the links as they are.
C23_LinkedPairConflict ==
    [][\A c \in CallIds :
          ( /\ calls'[c].op = "assignGoal"
            /\ calls[c].result = "pending" /\ calls'[c].result # "pending"
            /\ <<calls'[c].id, calls'[c].goalId>> \in db.saving_entry_goals )
          => /\ calls'[c].result = "Conflict"
             /\ db'.saving_entry_goals = db.saving_entry_goals]_vars

\* C24: a goal named by a link is not removed, and every link names a goal of
\* the store.
C24_LinkedGoalKept ==
    [][/\ \A g \in DOMAIN db.saving_goals :
            (\E l \in db.saving_entry_goals : l[2] = g) => g \in DOMAIN db'.saving_goals
       /\ \A l \in db'.saving_entry_goals : l[2] \in DOMAIN db'.saving_goals]_vars

\* C25: no two categories have the same owner and name, the owner of a global
\* category being equal to that of another global category only; and the step in
\* which a creation answers, for an owner and name that a category has when it
\* answers, answers Conflict and stores nothing.
C25_CategoryKeyUnique ==
    [][/\ \A a, b \in DOMAIN db'.categories :
            (a # b) => ~SameCategoryKey(db'.categories[a], db'.categories[b].user_id,
                                        db'.categories[b].name)
       /\ \A c \in CallIds :
            ( /\ calls[c].op = "createCategory"
              /\ calls[c].result = "pending" /\ calls'[c].result # "pending"
              /\ CategoryExists(calls[c].category.user_id, calls[c].category.name) )
            => /\ calls'[c].result = "Conflict"
               /\ db'.categories = db.categories]_vars

\* C26: no two pay periods have the same owner and pay date; the statement of an
\* upsert whose owner and pay date a row has adds no row and leaves that row with
\* the gross income and note of the request, and a second upsert of values the
\* row already has changes nothing; an upsert that succeeds answers the id of
\* the row of its owner and pay date.
C26_UpsertPayPeriod ==
    [][/\ \A a, b \in DOMAIN db'.pay_periods :
            ( /\ db'.pay_periods[a].user_id = db'.pay_periods[b].user_id
              /\ db'.pay_periods[a].pay_date = db'.pay_periods[b].pay_date ) => a = b
       /\ \A c \in CallIds :
            LET row == calls[c].payPeriod
                existing == PayPeriodOf(row.user_id, row.pay_date)
            IN  /\ ( /\ calls[c].op = "upsertPayPeriod" /\ calls[c].pc = "upsert"
                     /\ calls'[c] # calls[c] /\ existing # NULL ) =>
                      /\ DOMAIN db'.pay_periods = DOMAIN db.pay_periods
                      /\ db'.pay_periods[existing] = row
                      /\ \A k \in DOMAIN db.pay_periods \ {existing} :
                            db'.pay_periods[k] = db.pay_periods[k]
                      /\ db.pay_periods[existing] = row => db' = db
                /\ ( /\ calls[c].op = "upsertPayPeriod"
                     /\ calls[c].result = "pending" /\ calls'[c].result = "ok" ) =>
                      /\ calls'[c].insertId \in DOMAIN db'.pay_periods
                      /\ db'.pay_periods[calls'[c].insertId].user_id = row.user_id
                      /\ db'.pay_periods[calls'[c].insertId].pay_date = row.pay_date]_vars

\* C27: for every planned payment, before and after every step: it has a linked
\* transaction exactly when it is executed; a link once set does not change; the
\* linked transaction is in the store and names the payment; and no other
\* transaction names the payment.
C27_LinkedTxn ==
    [][\A p \in DOMAIN db'.planned_payments :
          LET row == db'.planned_payments[p] IN
          /\ (row.linked_txn_id # NULL) <=> (row.status = "executed")
          /\ (p \in DOMAIN Planned /\ Planned[p].linked_txn_id # NULL)
                => row.linked_txn_id = Planned[p].linked_txn_id
          /\ row.linked_txn_id # NULL =>
                /\ row.linked_txn_id \in DOMAIN db'.transactions
                /\ db'.transactions[row.linked_txn_id].planned_payment_id = p
          /\ \A t \in DOMAIN db'.transactions :
                db'.transactions[t].planned_payment_id = p => t = row.linked_txn_id]_vars

\* C28: a cancel and an execute request on one planned payment do not both answer
\* success; a canceled payment has no linked transaction and no
\* transaction names it; an executed payment is named by exactly one
\* transaction, the one it links to (stated for runs without a store failure).
C28_CancelExecuteExclusive ==
    faults = 0 =>
       \A p \in DOMAIN Planned :
          LET naming == {t \in DOMAIN Transactions : Transactions[t].planned_payment_id = p}
              succeeded(op) == {c \in CallIds : /\ calls[c].op = op /\ calls[c].id = p
                                                /\ calls[c].result = "ok"}
          IN  /\ succeeded("execute") = {} \/ succeeded("cancel") = {}
              /\ Planned[p].status = "canceled" =>
                    Planned[p].linked_txn_id = NULL /\ naming = {}
              /\ Planned[p].status = "executed" => naming = {Planned[p].linked_txn_id}

\* export.ts:193-195, 253-256, 284-286: the record's own value for each column
\* the table's UPDATE sets, the record's fields being in the column order of the
\* INSERT
UpdatableFields(t, values) ==
    CASE t = "accounts" ->
           [name |-> values[3], type |-> values[4], currency |-> values[5],
            is_active |-> values[6]]
      [] t = "planned_payments" -> [status |-> values[8], linked_txn_id |-> values[9]]
      [] t = "saving_goals" ->
           [name |-> values[3], target_amount_cents |-> values[4],
            target_date |-> values[5]]

\* C29: when a step of an import that is not a dry run counts a record as updated,
\* the row whose id is the record's id then holds the record's value in every
\* column the UPDATE sets, and every other row of the table is as it was.
C29_UpdateAppliesRecord ==
    [][\A i \in ImportIds :
          ( /\ imports[i].pc = "update"
            /\ imports'[i] # imports[i]
            /\ imports'[i].result # "StoreUnavailable" )
          => LET t == Table(imports[i])
                 values == Record(imports[i])
                 id == values[1]
                 fields == UpdatableFields(t, values)
             IN  /\ id \in DOMAIN db'[t]
                 /\ \A col \in DOMAIN fields : db'[t][id][col] = fields[col]
                 /\ \A r \in DOMAIN db[t] \ {id} :
                       r \in DOMAIN db'[t] /\ db'[t][r] = db[t][r]]_vars

\* the sum of one count over the tables of a report
RECURSIVE SumCount(_, _, _)
SumCount(details, ts, count) ==
    IF ts = {} THEN 0
    ELSE LET t == CHOOSE x \in ts : TRUE
         IN  details[t][count] + SumCount(details, ts \ {t}, count)

\* C30: an import that answers with counts reports, for every table its batch
\* gives, counts that add up to the number of records given for the table, and
\* totals that are the sums of the counts of the tables.
C30_CountsAddUp ==
    \A i \in ImportIds :
       (imports[i].pc = "done" /\ imports[i].result = "ok")
       => LET st == imports[i] IN
          /\ DOMAIN st.details = DOMAIN st.data
          /\ \A t \in DOMAIN st.data : CountsSum(st.details[t]) = Len(st.data[t])
          /\ st.inserted = SumCount(st.details, DOMAIN st.details, "inserted")
          /\ st.updated = SumCount(st.details, DOMAIN st.details, "updated")
          /\ st.skipped = SumCount(st.details, DOMAIN st.details, "skipped")

C30_Witness ==
    \E i \in ImportIds :
       LET st == imports[i] IN
       /\ st.pc = "done" /\ st.result = "ok" /\ ~st.dryRun
       /\ DOMAIN st.data = {"transactions", "planned_payments"}
       /\ st.details["transactions"].inserted >= 1
       /\ st.details["transactions"].skipped >= 1
       /\ st.details["planned_payments"].updated >= 1
       /\ st.inserted >= 1 /\ st.updated >= 1 /\ st.skipped >= 1

\* C31: a dry-run import answers, for every table of its batch, with all the
\* table's records counted as inserted and none as updated or skipped, whatever
\* the store holds.
C31_DryRunAllInserted ==
    \A i \in ImportIds :
       (imports[i].pc = "done" /\ imports[i].dryRun)
       => LET st == imports[i] IN
          /\ st.result = "ok"
          /\ DOMAIN st.details = DOMAIN st.data
          /\ \A t \in DOMAIN st.data :
                st.details[t] = [inserted |-> Len(st.data[t]), updated |-> 0, skipped |-> 0]
          /\ st.inserted = SumLen(st.data, DOMAIN st.data)
          /\ st.updated = 0 /\ st.skipped = 0

\* a dry run of a batch with a planned payment and a transaction that are stored
C31_Witness ==
    \E i \in ImportIds :
       LET st == imports[i] IN
       /\ st.pc = "done" /\ st.dryRun
       /\ DOMAIN st.data = {"transactions", "planned_payments"}
       /\ \E k \in 1..Len(st.data["planned_payments"]) :
             st.data["planned_payments"][k][1] \in DOMAIN Planned
       /\ \E k \in 1..Len(st.data["transactions"]) :
             st.data["transactions"][k][1] \in DOMAIN Transactions
       /\ st.inserted >= 2

(***************************************************************************)
(* POST /api/planned (planned.ts:82-146), taken as one step.  The table's  *)
(* AUTO_INCREMENT id is the one after the largest id stored.               *)
(***************************************************************************)
\* planned.ts:11-18, over the due dates around the window of pay period 1; the
\* schema lets no amount through that is not a positive integer
createPlannedPaymentSchema ==
    [ user_id : Users \cup {3}, account_id : {NULL, 1}, description : {"rent"},
      amount_cents : {7},
      due_date : {"2023-12-31", "2024-01-01", "2024-01-14", "2024-01-15"},
      auto_debit : {0} ]

\* the rows POST /api/planned may add on top of those of the start
MaxPosted == 2

\* planned.ts:88-125: 404 for a user or an account of the user that is not
\* stored; otherwise the row is inserted with status 'planned' and no
\* linked_txn_id
PostPlanned(validatedData) ==
    /\ Cardinality(DOMAIN db.planned_payments) < MaxPlanned + MaxPosted
    /\ validatedData.user_id \in Users
    /\ validatedData.account_id # NULL =>
          /\ validatedData.account_id \in DOMAIN db.accounts
          /\ db.accounts[validatedData.account_id].user_id = validatedData.user_id
    /\ LET insertId == Cardinality(DOMAIN db.planned_payments) + 1 IN
       db' = [db EXCEPT !.planned_payments =
                 Put(@, insertId, [ user_id |-> validatedData.user_id,
                                    account_id |-> validatedData.account_id,
                                    description |-> validatedData.description,
                                    amount_cents |-> validatedData.amount_cents,
                                    due_date |-> validatedData.due_date,
                                    auto_debit |-> validatedData.auto_debit,
                                    status |-> "planned",
                                    linked_txn_id |-> NULL ])]
    /\ UNCHANGED <<calls, imports, faults, reads>>

(***************************************************************************)
(* SpecWindow: pay-period summaries, in a process at UTC or east of it,    *)
(* running concurrently with the creation, the execution and the           *)
(* cancellation of planned payments due around the bounds of the window.   *)
(***************************************************************************)
NextWindow ==
    \/ \E id \in PayPeriodIdInputs, clock \in Clocks : SummarySelectPayPeriod(id, clock)
    \/ SummaryIncome
    \/ SummaryExpenses
    \/ SummarySavings
    \/ SummaryPlanned
    \/ \E validatedData \in createPlannedPaymentSchema : PostPlanned(validatedData)
    \/ \E id \in PlannedIdInputs : ExecuteSelectPlanned(1, id, NULL)
    \/ ExecuteSelectAccount(1, NULL)
    \/ \E txn_date \in TxnDates, description \in Descriptions :
          ExecuteInsertTxn(1, txn_date, description)
    \/ ExecuteUpdatePlanned(1)
    \/ \E id \in PlannedIdInputs : CancelSelectPlanned(2, id)
    \/ CancelUpdatePlanned(2)

SpecWindow == Init /\ [][NextWindow]_vars

\* C32: the reserved total a pay-period summary answers is the sum over exactly
\* the planned payments of the period's owner that have status planned and are
\* due on one of the 14 days from pay_date on, pay_date included and pay_date + 14
\* excluded, as the store holds them at the query.
C32_HalfOpenWindow ==
    [][Answers("periodSummary")
          => reads'.reserved_planned_cents =
                SumOver([q \in PeriodPlanned(reads.id) |-> Planned[q].amount_cents],
                        PeriodPlanned(reads.id))]_vars

\* summary.ts:31-38, 75-85: the reserved total the summary of pay period p answers
\* over the store as it is, in a process with the given clock
ReservedPlanned(p, clock) ==
    LET payDate == db.pay_periods[p].pay_date IN
    ReservedTotal(ReservedRows(db.pay_periods[p].user_id, ToISODate(payDate, clock),
                               ToISODate(AddDays(payDate, WindowDays), clock)))

\* summary.ts:53-62: the expenses the summary of pay period p answers over the
\* store as it is
ExpensesOut(p) ==
    SumOver([t \in ExpenseRows(p) |-> Abs(db.transactions[t].amount_cents)], ExpenseRows(p))

\* C33: the step with which an execute request succeeds lowers, for every pay
\* period of the payment's owner whose 14 days from pay_date on hold the
\* payment's due date, the reserved total of the period's summary by the
\* payment's magnitude, and neither that step nor the insert of the request's
\* transaction changes the expenses of any period's summary.
C33_ExecuteFreesReserve ==
    [][\A c \in CallIds :
          /\ ( /\ calls[c].op = "execute" /\ calls[c].pc # "done"
               /\ calls'[c].pc = "done" /\ calls'[c].result = "ok" )
             => LET q == calls[c].id IN
                \A p \in DOMAIN db.pay_periods, clock \in Clocks :
                   /\ ExpensesOut(p)' = ExpensesOut(p)
                   /\ ( /\ Planned[q].user_id = db.pay_periods[p].user_id
                        /\ DayNumber[Planned[q].due_date]
                              - DayNumber[db.pay_periods[p].pay_date] \in 0..(WindowDays - 1) )
                      => ReservedPlanned(p, clock)'
                            = ReservedPlanned(p, clock) - Abs(Planned[q].amount_cents)
          /\ (calls[c].op = "execute" /\ calls[c].pc = "insertTxn" /\ calls'[c] # calls[c])
             => \A p \in DOMAIN db.pay_periods : ExpensesOut(p)' = ExpensesOut(p)]_vars

(***************************************************************************)
(* The round trip of an export through an import into another store, for   *)
(* the tables the import is modelled for.                                  *)
(***************************************************************************)
\* the rows of an export in the order of their ids
RECURSIVE InIdOrder(_)
InIdOrder(rows) ==
    IF rows = {} THEN <<>>
    ELSE LET first == CHOOSE r \in rows : \A q \in rows : r[1] <= q[1]
         IN  <<first>> \o InIdOrder(rows \ {first})

\* the day the rows of the store were created on
CreatedAt == "2024-01-01"

\* export.ts:46-90, 118: a row as res.json prints it, the values in the order of
\* the SELECT's columns
ExportedRecord(t, id, row, clock) ==
    CASE t = "accounts" ->
           <<id, row.user_id, row.name, row.type, row.currency, row.is_active,
             ISOInstant(CreatedAt, clock)>>
      [] t = "transactions" ->
           <<id, row.user_id, row.pay_period_id, row.account_id, row.category_id, row.type,
             row.amount_cents, row.description, ISOInstant(row.txn_date, clock),
             row.planned_payment_id, row.counterparty_user_id, ISOInstant(CreatedAt, clock)>>
      [] t = "planned_payments" ->
           <<id, row.user_id, row.account_id, row.description, row.amount_cents,
             ISOInstant(row.due_date, clock), row.auto_debit, row.status, row.linked_txn_id,
             ISOInstant(CreatedAt, clock)>>
      [] t = "saving_goals" ->
           <<id, row.user_id, row.name, row.target_amount_cents,
             ISOInstant(row.target_date, clock), ISOInstant(CreatedAt, clock)>>

\* export.ts:103-118: the data of an export as the client receives it
ExportedData(data, clock) ==
    [t \in ImportTableNames |->
        LET rows == InIdOrder(data[t])
        IN  [n \in 1..Len(rows) |-> ExportedRecord(t, rows[n][1], rows[n][2], clock)]]

\* another store, holding no row
EmptyStore ==
    [ InitDb EXCEPT !.accounts = <<>>, !.categories = <<>>, !.cat_auto_inc = 1,
                    !.planned_payments = <<>>, !.pay_periods = <<>>, !.pp_auto_inc = 1,
                    !.saving_goals = <<>> ]

Exported == reads.op = "export" /\ reads.pc = "done" /\ reads.result = "ok"

\* The client turns to the other store with the export it has received.
SwitchStore ==
    /\ Exported
    /\ imports[1].pc = "idle"
    /\ db # EmptyStore
    /\ db' = EmptyStore
    /\ UNCHANGED <<calls, imports, faults, reads>>

(***************************************************************************)
(* SpecRoundTrip: transactions are created, the rows of user 1 are         *)
(* exported, the export is imported into a store that holds no row, and    *)
(* that store is exported.                                                 *)
(***************************************************************************)
NextRoundTrip ==
    \/ \E validatedData \in periodTransactions :
          reads.pc = "idle" /\ PostTransaction(validatedData)
    \/ imports[1].pc \in {"idle", "done"} /\ ExportSelectUser(1)
    \/ ExportSelectTable
    \/ SwitchStore
    \/ \E clock \in Clocks :
          /\ Exported /\ db = EmptyStore
          /\ ImportStart(1, FALSE, ExportedData(reads.data, clock))
    \/ ImportInsert(1)
    \/ ImportInsertRejected(1)

SpecRoundTrip == Init /\ [][NextRoundTrip]_vars

\* C34: when the export of a store has been imported, not as a dry run, into a
\* store that held no row, the import reports every record of accounts,
\* transactions, planned_payments and saving_goals as inserted, and the export
\* of the second store that follows returns in these tables the rows that were
\* imported.
C34_RoundTrip ==
    [][( /\ imports[1].pc = "done"
         /\ reads.op = "export" /\ reads.pc # "done" /\ reads'.pc = "done" )
       => /\ imports[1].result = "ok"
          /\ \A t \in ImportTableNames :
                imports[1].details[t] =
                   [inserted |-> Len(imports[1].data[t]), updated |-> 0, skipped |-> 0]
          /\ \E clock \in Clocks : ExportedData(reads'.data, clock) = imports[1].data]_vars

(***************************************************************************)
(* SpecSnapshot: exports running concurrently with one execute request and *)
(* with the creation and linking of saving entries.                        *)
(***************************************************************************)
NextSnapshot ==
    \/ \E userId \in UserIdInputs : ExportSelectUser(userId)
    \/ ExportSelectTable
    \/ \E id \in PlannedIdInputs : ExecuteSelectPlanned(1, id, NULL)
    \/ ExecuteSelectAccount(1, NULL)
    \/ \E txn_date \in TxnDates, description \in Descriptions :
          ExecuteInsertTxn(1, txn_date, description)
    \/ ExecuteUpdatePlanned(1)
    \/ \E validatedData \in {v \in periodSavingEntries : v.amount_cents > 0} :
          PostSavingEntry(validatedData)
    \/ \E entryId \in 1..MaxSavingId : AssignGoal(entryId, 1)

SpecSnapshot == Init /\ [][NextSnapshot]_vars

\* the ids of the rows an export returns for a table
ExportedIds(data, t) == {r[1] : r \in data[t]}

\* C35: in the data an export answers with, the linked transaction of every
\* planned payment that has one is among the transactions, and the saving entry
\* of every link is among the saving entries.
C35_SnapshotSelfContained ==
    [][Answers("export")
          => /\ \A r \in reads'.data["planned_payments"] :
                   r[2].linked_txn_id # NULL
                      => r[2].linked_txn_id \in ExportedIds(reads'.data, "transactions")
             /\ \A l \in reads'.data["saving_entry_goals"] :
                   l[1] \in ExportedIds(reads'.data, "saving_entries")]_vars

(***************************************************************************)
(* SpecPlanned: planned payments are created, executed, canceled and       *)
(* imported.                                                               *)
(***************************************************************************)
NextPlanned ==
    \/ \E validatedData \in createPlannedPaymentSchema : PostPlanned(validatedData)
    \/ \E id \in PlannedIdInputs : ExecuteSelectPlanned(1, id, NULL)
    \/ ExecuteSelectAccount(1, NULL)
    \/ \E txn_date \in TxnDates, description \in Descriptions :
          ExecuteInsertTxn(1, txn_date, description)
    \/ ExecuteUpdatePlanned(1)
    \/ \E id \in PlannedIdInputs : CancelSelectPlanned(2, id)
    \/ CancelUpdatePlanned(2)
    \/ \E data \in ReadBatches : ImportStart(1, FALSE, data)
    \/ ImportInsert(1)
    \/ \E rejected \in BOOLEAN : ImportUpdate(1, rejected)

SpecPlanned == Init /\ [][NextPlanned]_vars

\* C36: the amount of every stored planned payment is positive, and a planned
\* payment that POST /api/planned adds has status planned and no linked
\* transaction.
C36_PlannedAmountPositive ==
    [][/\ \A p \in DOMAIN db'.planned_payments : db'.planned_payments[p].amount_cents > 0
       /\ \A p \in DOMAIN db'.planned_payments \ DOMAIN Planned :
             imports' = imports
                => /\ db'.planned_payments[p].status = "planned"
                   /\ db'.planned_payments[p].linked_txn_id = NULL]_vars

(***************************************************************************)
(* SpecLive: an execute, a cancel and an import request, with store calls  *)
(* that fail; every store call a request waits for returns or fails.       *)
(***************************************************************************)
\* the store call that execute or cancel request c waits for returns or fails
ProgressCall(c) ==
    \/ \E category_id \in {NULL, 1, 3} : ExecuteSelectAccount(c, category_id)
    \/ ExecuteSelectCategory(c)
    \/ \E txn_date \in TxnDates, description \in Descriptions :
          ExecuteInsertTxn(c, txn_date, description)
    \/ ExecuteUpdatePlanned(c)
    \/ CancelUpdatePlanned(c)
    \/ CallQueryFails(c)

\* the store call that import request i waits for returns or fails
ProgressImport(i) ==
    \/ ImportInsert(i)
    \/ ImportInsertFails(i)
    \/ \E rejected \in BOOLEAN : ImportUpdate(i, rejected)
    \/ ImportUpdateFails(i)

\* batches of transactions and planned payments, one of them with a record
\* after a planned payment that is stored
LiveBatches ==
    MixedBatches
    \cup { ("planned_payments" :> << PlannedRecord(1, 1, "planned", NULL),
                                     PlannedRecord(MaxPlanned + 1, 1, "planned", NULL) >>) }

NextLive ==
    \/ \E id \in PlannedIdInputs, account_id \in {NULL, 1} : ExecuteSelectPlanned(1, id, account_id)
    \/ \E id \in PlannedIdInputs : CancelSelectPlanned(2, id)
    \/ \E c \in CallIds : ProgressCall(c)
    \/ \E dryRun \in BOOLEAN, data \in LiveBatches : ImportStart(1, dryRun, data)
    \/ ProgressImport(1)

SpecLive ==
    /\ Init /\ [][NextLive]_vars
    /\ \A c \in CallIds : WF_vars(ProgressCall(c))
    /\ WF_vars(ProgressImport(1))

\* every execute, cancel and import request taken up is answered
EveryCallReturns ==
    /\ \A c \in CallIds : (calls[c].pc \notin {"idle", "done"}) ~> (calls[c].pc = "done")
    /\ \A i \in ImportIds : (imports[i].pc \notin {"idle", "done"}) ~> (imports[i].pc = "done")

\* C37: every execute, cancel and import request taken up is answered, and an
\* import that is no dry run has by then attempted the insert of every record of
\* its batch, each once.
C37_CallsReturn ==
    /\ EveryCallReturns
    /\ [](\A i \in ImportIds :
             (imports[i].pc = "done" /\ ~imports[i].dryRun)
                => imports[i].attempted = SumLen(imports[i].data, DOMAIN imports[i].data))

====
